---- MODULE Spec2Model ----
(***************************************************************************)
(* Change-tree reconciliation of lerouxb/change-view.                      *)
(*                                                                         *)
(* The module models src/src/unified-document.ts (propertiesWithChanges,   *)
(* itemsWithChanges, the differ configuration) and the tree traversal of   *)
(* the ChangeView component family (ChangeObject, ChangeArray,             *)
(* getImplicitChangeType) over JavaScript values.                          *)
(***************************************************************************)
EXTENDS Integers, Sequences, FiniteSets, TLC

(***************************************************************************)
(* JavaScript strings used as property names.  Only three forms occur in   *)
(* documents and deltas: a plain name ("foo"), a canonical decimal index   *)
(* ("3") and either of them behind the reserved prefix "_" ("_t", "_3").   *)
(***************************************************************************)
Name(s) == [us |-> FALSE, num |-> FALSE, s |-> s, n |-> 0]

Digits(n) == [us |-> FALSE, num |-> TRUE, s |-> "", n |-> n]

Under(k) == [k EXCEPT !.us = TRUE]

\* String.prototype.startsWith('_')
StartsWithUnderscore(k) == k.us

\* String.prototype.slice(1) of a string that starts with '_'
Slice1(k) == [k EXCEPT !.us = FALSE]

\* the key '_t'
TKey == Under(Name("t"))

(***************************************************************************)
(* JavaScript values held in `index`: a number or a string.                *)
(***************************************************************************)
Num(n) == [ty |-> "number", n |-> n, str |-> Name("")]

Str(k) == [ty |-> "string", n |-> 0, str |-> k]

\* a value that is absent (properties have no index)
NoIndex == [ty |-> "undefined", n |-> 0, str |-> Name("")]

\* the decimal digits of a natural number, most significant first
RECURSIVE DigitsOf(_)
DigitsOf(n) == IF n < 10 THEN <<n>> ELSE Append(DigitsOf(n \div 10), n % 10)

\* lexicographic a < b on digit sequences (code-unit order of decimal strings)
RECURSIVE LexLess(_, _)
LexLess(a, b) ==
  IF b = <<>> THEN FALSE
  ELSE IF a = <<>> THEN TRUE
  ELSE IF Head(a) # Head(b) THEN Head(a) < Head(b)
  ELSE LexLess(Tail(a), Tail(b))

\* is the string a canonical decimal number (ToNumber is not NaN)
IsNumeric(v) == v.ty = "number" \/ (v.ty = "string" /\ v.str.num /\ ~v.str.us)

\* ToNumber for the values that are numeric
ToNumber(v) == IF v.ty = "number" THEN v.n ELSE v.str.n

\* a > b : two strings compare by code units, anything else numerically
\* (a comparison with NaN is false)
JsGreater(a, b) ==
  IF a.ty = "string" /\ b.ty = "string"
  THEN IF IsNumeric(a) /\ IsNumeric(b)
       THEN LexLess(DigitsOf(b.str.n), DigitsOf(a.str.n))
       ELSE FALSE
  ELSE IsNumeric(a) /\ IsNumeric(b) /\ ToNumber(a) > ToNumber(b)

\* a >= b
JsGreaterEq(a, b) ==
  IF a.ty = "string" /\ b.ty = "string"
  THEN IF IsNumeric(a) /\ IsNumeric(b)
       THEN ~LexLess(DigitsOf(a.str.n), DigitsOf(b.str.n))
       ELSE a = b
  ELSE IsNumeric(a) /\ IsNumeric(b) /\ ToNumber(a) >= ToNumber(b)

\* a - 1 : always numeric
JsMinus1(a) == Num(ToNumber(a) - 1)

\* a + 1 : numeric addition for a number, concatenation of "1" for a string
JsPlus1(a) ==
  IF a.ty = "string" THEN Str(Digits(a.str.n * 10 + 1)) ELSE Num(a.n + 1)

\* the array position a property key addresses (items[index], splice(index))
ToPosition(v) == ToNumber(v)

(***************************************************************************)
(* Documents: leaves, typed (BSON) scalars, mappings and sequences.        *)
(***************************************************************************)
Undefined == [t |-> "undefined", p |-> 0, ks |-> <<>>, vs |-> <<>>]

Leaf(p) == [t |-> "leaf", p |-> p, ks |-> <<>>, vs |-> <<>>]

\* a value carrying the _bsontype discriminator
Bson(p) == [t |-> "bson", p |-> p, ks |-> <<>>, vs |-> <<>>]

Obj(ks, vs) == [t |-> "object", p |-> 0, ks |-> ks, vs |-> vs]

Arr(vs) == [t |-> "array", p |-> 0, ks |-> <<>>, vs |-> vs]

\* null
Null == [t |-> "null", p |-> 0, ks |-> <<>>, vs |-> <<>>]

\* a Date: an object that is neither plain nor discriminated
Date(p) == [t |-> "date", p |-> p, ks |-> <<>>, vs |-> <<>>]

\* an Array that has been given a _bsontype property
ArrWithBsontype(vs, p) == [t |-> "array", p |-> p, ks |-> <<>>, vs |-> vs]

\* value._bsontype is set
hasBsontype(v) == v.t = "bson" \/ (v.t = "array" /\ v.p # 0)

isSimpleObject(v) == v.t = "object"

getValueShape(v) ==
  IF v.t = "array" THEN "array"
  ELSE IF isSimpleObject(v) THEN "object"
  ELSE "leaf"

\* position of key k in the key list ks, 0 when absent
RECURSIVE KeyPos(_, _, _)
KeyPos(ks, k, i) ==
  IF i > Len(ks) THEN 0
  ELSE IF ks[i] = k THEN i
  ELSE KeyPos(ks, k, i + 1)

\* value[key] for a mapping or a sequence
GetProp(v, k) ==
  IF v.t = "object"
  THEN IF KeyPos(v.ks, k, 1) = 0 THEN Undefined ELSE v.vs[KeyPos(v.ks, k, 1)]
  ELSE IF v.t = "array" /\ k.num /\ ~k.us /\ k.n < Len(v.vs)
  THEN v.vs[k.n + 1]
  ELSE Undefined

(***************************************************************************)
(* Object.entries order: canonical index keys ascending, then the other    *)
(* keys in insertion order.                                                *)
(***************************************************************************)
IsIndexKey(k) == k.num /\ ~k.us

RECURSIVE SortedInsert(_, _, _)
SortedInsert(ks, sorted, i) ==
  IF sorted = <<>> THEN <<i>>
  ELSE IF ks[i].n < ks[Head(sorted)].n THEN <<i>> \o sorted
  ELSE <<Head(sorted)>> \o SortedInsert(ks, Tail(sorted), i)

RECURSIVE IndexKeyOrder(_, _)
IndexKeyOrder(ks, i) ==
  IF i > Len(ks) THEN <<>>
  ELSE IF IsIndexKey(ks[i]) THEN SortedInsert(ks, IndexKeyOrder(ks, i + 1), i)
  ELSE IndexKeyOrder(ks, i + 1)

RECURSIVE OtherKeyOrder(_, _)
OtherKeyOrder(ks, i) ==
  IF i > Len(ks) THEN <<>>
  ELSE IF IsIndexKey(ks[i]) THEN OtherKeyOrder(ks, i + 1)
  ELSE <<i>> \o OtherKeyOrder(ks, i + 1)

\* the positions of ks in the order Object.keys enumerates them
OwnKeyOrder(ks) == IndexKeyOrder(ks, 1) \o OtherKeyOrder(ks, 1)

\* Object.entries(value) of a mapping or a sequence: <<key, value>> pairs
ValueEntries(v) ==
  IF v.t = "array"
  THEN [i \in 1..Len(v.vs) |-> <<Digits(i - 1), v.vs[i]>>]
  ELSE IF v.t = "object"
  THEN LET ord == OwnKeyOrder(v.ks)
       IN [i \in 1..Len(ord) |-> <<v.ks[ord[i]], v.vs[ord[i]]>>]
  ELSE <<>>

(***************************************************************************)
(* Deltas (jsondiffpatch wire format):                                     *)
(*   null | { key: entry, ... } | [v] | [old, new] | [old, 0, 0] | 'a'     *)
(***************************************************************************)
DNull == [t |-> "null", ks |-> <<>>, es |-> <<>>, xs |-> <<>>]

DObj(ks, es) == [t |-> "object", ks |-> ks, es |-> es, xs |-> <<>>]

DList(xs) == [t |-> "list", ks |-> <<>>, es |-> <<>>, xs |-> xs]

\* a string entry, used for the marker _t: 'a'
DStr(k) == [t |-> "string", ks |-> <<k>>, es |-> <<>>, xs |-> <<>>]

ArrayMarker == DStr(Name("a"))

\* an array delta: { _t: 'a', ... }
DArr(ks, es) == DObj(<<TKey>> \o ks, <<ArrayMarker>> \o es)

\* Object.keys(delta)
DeltaKeys(d) ==
  LET ord == OwnKeyOrder(d.ks) IN [i \in 1..Len(ord) |-> d.ks[ord[i]]]

\* Object.entries(delta): <<key, change>> pairs
DeltaEntries(d) ==
  LET ord == OwnKeyOrder(d.ks)
  IN [i \in 1..Len(ord) |-> <<d.ks[ord[i]], d.es[ord[i]]>>]

\* delta[key]
DeltaGet(d, k) ==
  IF d.t = "object" /\ KeyPos(d.ks, k, 1) # 0 THEN d.es[KeyPos(d.ks, k, 1)]
  ELSE DNull

(***************************************************************************)
(* Branch, ObjectWithChange and the outcome of a call.                     *)
(***************************************************************************)
NoBranch == [present |-> FALSE, path |-> <<>>, value |-> Undefined]

Branch(path, value) == [present |-> TRUE, path |-> path, value |-> value]

ObjectWithChange(ict, ct, key, index, left, right, delta) ==
  [implicitChangeType |-> ict, changeType |-> ct, objectKey |-> key,
   index |-> index, left |-> left, right |-> right, delta |-> delta]

\* items carry no objectKey
NoKey == Name("")

\* a returned list
Ok(list) == [ok |-> TRUE, list |-> list, error |-> "", culprit |-> NoIndex]

\* a thrown Error; culprit is the key or index the message quotes
Throw(msg, culprit) ==
  [ok |-> FALSE, list |-> <<>>, error |-> msg, culprit |-> culprit]

(***************************************************************************)
(* propertiesWithChanges                                                   *)
(***************************************************************************)
\* new branch of a base record: the parent's path extended by the key
childLeft(left, seg, leftValue) ==
  IF left.present THEN Branch(Append(left.path, seg), leftValue) ELSE NoBranch

\* the right value of a base property is read from right.value[objectKey]
childRightProperty(right, objectKey) ==
  IF right.present
  THEN Branch(Append(right.path, Str(objectKey)), GetProp(right.value, objectKey))
  ELSE NoBranch

\* a base record that starts as changed when it has both branches
baseChangeType_StartChanged(newLeft, newRight) ==
  IF newLeft.present /\ newRight.present THEN "changed"
  ELSE IF newLeft.present THEN "removed"
  ELSE "added"

\* changeType of a base record, from the branches it has
baseChangeType(newLeft, newRight) ==
  IF newLeft.present /\ newRight.present THEN "unchanged"
  ELSE IF newLeft.present THEN "removed"
  ELSE "added"

\* a selection that enumerates the right side whatever the change type
baseBranch_AlwaysRight(left, right, implicitChangeType) == right

\* the side whose value is enumerated
baseBranch(left, right, implicitChangeType) ==
  IF implicitChangeType = "added" THEN right ELSE left

\* a base property that does not take over the implicitChangeType passed in
baseProperty_ForgetImplicit(left, right, implicitChangeType, objectKey, leftValue) ==
  LET newLeft == childLeft(left, Str(objectKey), leftValue)
      newRight == childRightProperty(right, objectKey)
  IN ObjectWithChange("unchanged", baseChangeType(newLeft, newRight),
                      objectKey, NoIndex, newLeft, newRight, DNull)

baseProperty(left, right, implicitChangeType, objectKey, leftValue) ==
  LET newLeft == childLeft(left, Str(objectKey), leftValue)
      newRight == childRightProperty(right, objectKey)
  IN ObjectWithChange(implicitChangeType, baseChangeType(newLeft, newRight),
                      objectKey, NoIndex, newLeft, newRight, DNull)

\* Object.entries(value).map(...)
baseProperties(left, right, implicitChangeType) ==
  LET base == baseBranch(left, right, implicitChangeType)
      entries == ValueEntries(base.value)
  IN IF ~base.present \/ base.value.t = "undefined"
     THEN Throw("TypeError", NoIndex)
     ELSE IF right.present /\ right.value.t = "undefined" /\ Len(entries) > 0
     THEN Throw("TypeError", NoIndex)
     ELSE Ok([i \in 1..Len(entries) |->
                baseProperty(left, right, implicitChangeType,
                             entries[i][1], entries[i][2])])

\* properties.find((p) => p.objectKey === key), 0 when there is none
RECURSIVE findProperty(_, _, _)
findProperty(properties, key, i) ==
  IF i > Len(properties) THEN 0
  ELSE IF properties[i].objectKey = key THEN i
  ELSE findProperty(properties, key, i + 1)

\* an add that puts the new record in front of the list
addProperty_Unshift(properties, right, implicitChangeType, key, change) ==
  IF ~right.present THEN Throw("TypeError", NoIndex)
  ELSE Ok(<<ObjectWithChange(implicitChangeType, "added", key, NoIndex,
                             NoBranch,
                             Branch(Append(right.path, Str(key)), change.xs[1]),
                             DNull)>> \o properties)

\* change.length === 1
addProperty(properties, right, implicitChangeType, key, change) ==
  IF ~right.present THEN Throw("TypeError", NoIndex)
  ELSE Ok(Append(properties,
                 ObjectWithChange(implicitChangeType, "added", key, NoIndex,
                                  NoBranch,
                                  Branch(Append(right.path, Str(key)), change.xs[1]),
                                  DNull)))

\* an update that replaces the value and leaves the changeType as it was
updateProperty_NoPromote(properties, key, change) ==
  LET f == findProperty(properties, key, 1)
  IN IF f = 0 THEN Throw("property with key does not exist", Str(key))
     ELSE IF ~properties[f].right.present THEN Throw("TypeError", NoIndex)
     ELSE Ok([properties EXCEPT ![f].right.value = change.xs[2]])

\* an update that skips a key it does not find
updateProperty_SkipMissing(properties, key, change) ==
  LET f == findProperty(properties, key, 1)
  IN IF f = 0 THEN Ok(properties)
     ELSE IF ~properties[f].right.present THEN Throw("TypeError", NoIndex)
     ELSE Ok([properties EXCEPT ![f].right.value = change.xs[2],
                                ![f].changeType = "changed"])

\* change.length === 2
updateProperty(properties, key, change) ==
  LET f == findProperty(properties, key, 1)
  IN IF f = 0 THEN Throw("property with key does not exist", Str(key))
     ELSE IF ~properties[f].right.present THEN Throw("TypeError", NoIndex)
     ELSE Ok([properties EXCEPT ![f].right.value = change.xs[2],
                                ![f].changeType = "changed"])

\* a deletion that drops the record of the key instead of marking it
deleteProperty_Drop(properties, key) ==
  Ok(SelectSeq(properties, LAMBDA property : property.objectKey # key))

\* a delete that keeps the right branch of the property
deleteProperty_KeepRight(properties, key) ==
  LET f == findProperty(properties, key, 1)
  IN IF f = 0 THEN Throw("property with key does not exist", Str(key))
     ELSE Ok([properties EXCEPT ![f].changeType = "removed"])

\* change.length === 3
deleteProperty(properties, key) ==
  LET f == findProperty(properties, key, 1)
  IN IF f = 0 THEN Throw("property with key does not exist", Str(key))
     ELSE Ok([properties EXCEPT ![f].changeType = "removed",
                                ![f].right = NoBranch])

\* a nested change that also marks the property changed
nestProperty_MarkChanged(properties, key, change) ==
  LET f == findProperty(properties, key, 1)
  IN IF change.t # "object"
     THEN Throw("change should be a simple object", NoIndex)
     ELSE IF f = 0 THEN Throw("property with key does not exist", Str(key))
     ELSE Ok([properties EXCEPT ![f].delta = change, ![f].changeType = "changed"])

\* a change that is not an array: the delta is passed along
nestProperty(properties, key, change) ==
  LET f == findProperty(properties, key, 1)
  IN IF change.t # "object"
     THEN Throw("change should be a simple object", NoIndex)
     ELSE IF f = 0 THEN Throw("property with key does not exist", Str(key))
     ELSE Ok([properties EXCEPT ![f].delta = change])

\* the body of the loop over Object.entries(delta)
applyPropertyChange(properties, right, implicitChangeType, key, change) ==
  IF change.t = "list"
  THEN IF Len(change.xs) = 1
       THEN addProperty(properties, right, implicitChangeType, key, change)
       ELSE IF Len(change.xs) = 2 THEN updateProperty(properties, key, change)
       ELSE IF Len(change.xs) = 3 THEN deleteProperty(properties, key)
       ELSE Throw("unexpected change length", NoIndex)
  ELSE nestProperty(properties, key, change)

RECURSIVE applyPropertyChanges(_, _, _, _, _)
applyPropertyChanges(result, entries, i, right, implicitChangeType) ==
  IF ~result.ok \/ i > Len(entries) THEN result
  ELSE applyPropertyChanges(
         applyPropertyChange(result.list, right, implicitChangeType,
                             entries[i][1], entries[i][2]),
         entries, i + 1, right, implicitChangeType)

\* if (delta) { assert(isSimpleObject(delta)); for (...) {...} }
applyPropertyDelta(properties, right, delta, implicitChangeType) ==
  IF delta.t = "null" THEN Ok(properties)
  ELSE IF delta.t # "object"
  THEN Throw("delta should be a simple object", NoIndex)
  ELSE applyPropertyChanges(Ok(properties), DeltaEntries(delta), 1,
                            right, implicitChangeType)

\* a callback that only finds a leaf that became composite
shapeChanged_FromLeafOnly(property) ==
  property.changeType = "changed"
  /\ (property.left.present /\ property.right.present
      => /\ getValueShape(property.left.value) = "leaf"
         /\ getValueShape(property.right.value) # "leaf")

\* the findIndex callback: a changed property whose shape changed
shapeChanged(property) ==
  property.changeType = "changed"
  /\ (property.left.present /\ property.right.present
      => getValueShape(property.left.value) # getValueShape(property.right.value))

\* properties.findIndex(...), 0 when there is none
RECURSIVE findShapeChange(_, _)
findShapeChange(properties, i) ==
  IF i > Len(properties) THEN 0
  ELSE IF shapeChanged(properties[i]) THEN i
  ELSE findShapeChange(properties, i + 1)

\* the removed half of a split
splitRemoved(property, implicitChangeType) ==
  ObjectWithChange(implicitChangeType, "removed", property.objectKey, NoIndex,
                   property.left, NoBranch, DNull)

\* the added half of a split: it takes its path from the left branch
splitAdded(property, implicitChangeType) ==
  ObjectWithChange(implicitChangeType, "added", property.objectKey, NoIndex,
                   NoBranch,
                   Branch(property.left.path, property.right.value), DNull)

\* a splice that puts the added half first
splitProperty_AddedFirst(properties, index, implicitChangeType) ==
  SubSeq(properties, 1, index - 1)
  \o <<splitAdded(properties[index], implicitChangeType),
       splitRemoved(properties[index], implicitChangeType)>>
  \o SubSeq(properties, index + 1, Len(properties))

\* properties.splice(index, 1, deleteProperty, addProperty)
splitProperty(properties, index, implicitChangeType) ==
  SubSeq(properties, 1, index - 1)
  \o <<splitRemoved(properties[index], implicitChangeType),
       splitAdded(properties[index], implicitChangeType)>>
  \o SubSeq(properties, index + 1, Len(properties))

\* the list the loop starts from: the base properties with the delta applied
preSplit(left, right, delta, implicitChangeType) ==
  LET base == baseProperties(left, right, implicitChangeType)
  IN IF base.ok
     THEN applyPropertyDelta(base.list, right, delta, implicitChangeType)
     ELSE base

\* while (changed) { ... }
RECURSIVE splitShapeChanges(_, _)
splitShapeChanges(properties, implicitChangeType) ==
  LET index == findShapeChange(properties, 1)
  IN IF index = 0 THEN Ok(properties)
     ELSE IF ~properties[index].left.present \/ ~properties[index].right.present
     THEN Throw("TypeError", NoIndex)
     ELSE splitShapeChanges(splitProperty(properties, index, implicitChangeType),
                            implicitChangeType)

propertiesWithChanges(left, right, delta, implicitChangeType) ==
  LET base == baseProperties(left, right, implicitChangeType)
      changed == IF base.ok
                 THEN applyPropertyDelta(base.list, right, delta, implicitChangeType)
                 ELSE base
  IN IF changed.ok THEN splitShapeChanges(changed.list, implicitChangeType)
     ELSE changed

(***************************************************************************)
(* itemsWithChanges                                                        *)
(***************************************************************************)
\* the right branch of a base item: its value is read from left?.value
childRightItem(left, right, index) ==
  IF right.present
  THEN Branch(Append(right.path, Num(index)),
              IF left.present THEN left.value ELSE Undefined)
  ELSE NoBranch

baseItem(left, right, implicitChangeType, index, leftValue) ==
  LET newLeft == childLeft(left, Num(index), leftValue)
      newRight == childRightItem(left, right, index)
  IN ObjectWithChange(implicitChangeType, baseChangeType(newLeft, newRight),
                      NoKey, Num(index), newLeft, newRight, DNull)

\* value.map(...)
baseItems(left, right, implicitChangeType) ==
  LET base == baseBranch(left, right, implicitChangeType)
  IN IF ~base.present \/ base.value.t # "array"
     THEN Throw("TypeError", NoIndex)
     ELSE Ok([i \in 1..Len(base.value.vs) |->
                baseItem(left, right, implicitChangeType, i - 1, base.value.vs[i])])

\* Object.keys(delta).filter(startsWith('_') && key !== '_t').map(slice(1))
RECURSIVE removalIndexes(_, _)
removalIndexes(keys, i) ==
  IF i > Len(keys) THEN <<>>
  ELSE IF StartsWithUnderscore(keys[i]) /\ keys[i] # TKey
  THEN <<Str(Slice1(keys[i]))>> \o removalIndexes(keys, i + 1)
  ELSE removalIndexes(keys, i + 1)

toRemove(delta) == removalIndexes(DeltaKeys(delta), 1)

\* items[index] exists
itemExists(items, index) == IsNumeric(index) /\ ToPosition(index) < Len(items)

\* existingItem.changeType = 'removed'; delete existingItem.right
markRemoved(item) == [item EXCEPT !.changeType = "removed", !.right = NoBranch]

\* if (item.index > index) item.index = item.index - 1
shiftAfterRemoval(item, index) ==
  IF JsGreater(item.index, index)
  THEN [item EXCEPT !.index = JsMinus1(item.index)]
  ELSE item

\* the body of the loop over toRemove
removeItem(items, index) ==
  IF ~itemExists(items, index)
  THEN Throw("item with index does not exist", index)
  ELSE LET marked == [items EXCEPT ![ToPosition(index) + 1] = markRemoved(@)]
       IN Ok([i \in 1..Len(marked) |-> shiftAfterRemoval(marked[i], index)])

RECURSIVE removeItems(_, _, _)
removeItems(result, indexes, i) ==
  IF ~result.ok \/ i > Len(indexes) THEN result
  ELSE removeItems(removeItem(result.list, indexes[i]), indexes, i + 1)

\* if (item.index >= index && item.changeType !== 'removed') item.index += 1
shiftForInsertion(item, index) ==
  IF JsGreaterEq(item.index, index) /\ item.changeType # "removed"
  THEN [item EXCEPT !.index = JsPlus1(item.index)]
  ELSE item

\* where items.splice(index, 0, x) puts x (1-based position of x)
splicePosition(items, index) ==
  IF ~IsNumeric(index) THEN 1
  ELSE IF ToPosition(index) > Len(items) THEN Len(items) + 1
  ELSE ToPosition(index) + 1

\* the record spliced in for an insertion
addedItem(left, right, implicitChangeType, index, change) ==
  ObjectWithChange(implicitChangeType, "added", NoKey, index, NoBranch,
                   Branch(Append((IF right.present THEN right ELSE left).path, index),
                          IF Len(change.xs) > 0 THEN change.xs[1] ELSE Undefined),
                   DNull)

\* insertItem with a 2-element entry taken as an update of the item in place
insertItem_UpdateInPlace(items, left, right, implicitChangeType, index, change) ==
  IF change.t # "list" THEN Throw("unexpected non-array", NoIndex)
  ELSE IF Len(change.xs) = 3 THEN Throw("array moves are not supported", NoIndex)
  ELSE IF Len(change.xs) = 2 /\ itemExists(items, index)
  THEN Ok([items EXCEPT ![ToPosition(index) + 1].changeType = "changed"])
  ELSE IF Len(change.xs) = 2 THEN Throw("array changes are not supported", NoIndex)
  ELSE LET shifted == [i \in 1..Len(items) |-> shiftForInsertion(items[i], index)]
           at == splicePosition(shifted, index)
       IN Ok(SubSeq(shifted, 1, at - 1)
             \o <<addedItem(left, right, implicitChangeType, index, change)>>
             \o SubSeq(shifted, at, Len(shifted)))

\* the body of the loop over Object.entries(delta) for a key without '_'
insertItem(items, left, right, implicitChangeType, index, change) ==
  IF change.t # "list" THEN Throw("unexpected non-array", NoIndex)
  ELSE IF Len(change.xs) = 3 THEN Throw("array moves are not supported", NoIndex)
  ELSE IF Len(change.xs) = 2 THEN Throw("array changes are not supported", NoIndex)
  ELSE LET shifted == [i \in 1..Len(items) |-> shiftForInsertion(items[i], index)]
           at == splicePosition(shifted, index)
       IN Ok(SubSeq(shifted, 1, at - 1)
             \o <<addedItem(left, right, implicitChangeType, index, change)>>
             \o SubSeq(shifted, at, Len(shifted)))

RECURSIVE insertItems(_, _, _, _, _, _)
insertItems(result, entries, i, left, right, implicitChangeType) ==
  IF ~result.ok \/ i > Len(entries) THEN result
  ELSE IF StartsWithUnderscore(entries[i][1])
  THEN insertItems(result, entries, i + 1, left, right, implicitChangeType)
  ELSE insertItems(
         insertItem(result.list, left, right, implicitChangeType,
                    Str(entries[i][1]), entries[i][2]),
         entries, i + 1, left, right, implicitChangeType)

\* one pass over Object.entries(delta) that removes and inserts as it goes
RECURSIVE singlePass(_, _, _, _, _, _)
singlePass(result, entries, i, left, right, implicitChangeType) ==
  IF ~result.ok \/ i > Len(entries) THEN result
  ELSE IF entries[i][1] = TKey
  THEN singlePass(result, entries, i + 1, left, right, implicitChangeType)
  ELSE IF StartsWithUnderscore(entries[i][1])
  THEN singlePass(removeItem(result.list, Str(Slice1(entries[i][1]))),
                  entries, i + 1, left, right, implicitChangeType)
  ELSE singlePass(insertItem(result.list, left, right, implicitChangeType,
                             Str(entries[i][1]), entries[i][2]),
                  entries, i + 1, left, right, implicitChangeType)

applyItemDelta_SinglePass(items, left, right, delta, implicitChangeType) ==
  IF delta.t = "null" THEN Ok(items)
  ELSE IF DeltaGet(delta, TKey) # ArrayMarker
  THEN Throw("delta._t is not a", NoIndex)
  ELSE singlePass(Ok(items), DeltaEntries(delta), 1, left, right,
                  implicitChangeType)

\* if (delta) { assert(delta._t === 'a'); removals; insertions }
applyItemDelta(items, left, right, delta, implicitChangeType) ==
  IF delta.t = "null" THEN Ok(items)
  ELSE IF DeltaGet(delta, TKey) # ArrayMarker
  THEN Throw("delta._t is not a", NoIndex)
  ELSE insertItems(removeItems(Ok(items), toRemove(delta), 1),
                   DeltaEntries(delta), 1, left, right, implicitChangeType)

itemsWithChanges(left, right, delta, implicitChangeType) ==
  LET base == baseItems(left, right, implicitChangeType)
  IN IF base.ok
     THEN applyItemDelta(base.list, left, right, delta, implicitChangeType)
     ELSE base

(***************************************************************************)
(* The two operations on a heap of objects.  Every object literal, map and *)
(* array spread of the source allocates a new cell; every assignment,      *)
(* delete, push and splice writes the cell its target refers to.  A        *)
(* reference is the position of a cell in the heap, 0 is undefined.        *)
(* Document values and deltas are only read.                               *)
(***************************************************************************)
Cell(kind) ==
  [kind |-> kind, segs |-> <<>>, refs |-> <<>>, path |-> 0, value |-> Undefined,
   implicitChangeType |-> "", changeType |-> "", objectKey |-> NoKey,
   index |-> NoIndex, left |-> 0, right |-> 0, delta |-> DNull]

\* a path array
PathCell(segs) == [Cell("path") EXCEPT !.segs = segs]

\* a Branch object { path, value }
BranchCell(path, value) == [Cell("branch") EXCEPT !.path = path, !.value = value]

\* an ObjectWithChange object
RecordCell(ict, ct, key, index, left, right, delta) ==
  [Cell("record") EXCEPT !.implicitChangeType = ict, !.changeType = ct,
                         !.objectKey = key, !.index = index,
                         !.left = left, !.right = right, !.delta = delta]

\* the array of records
ListCell(refs) == [Cell("list") EXCEPT !.refs = refs]

\* outcome of a step on the heap: the heap and the reference it produced
HOk(h, ref) == [ok |-> TRUE, heap |-> h, ref |-> ref, error |-> ""]

HThrow(h, msg) == [ok |-> FALSE, heap |-> h, ref |-> 0, error |-> msg]

\* what a reference to a Branch, a record and a list stands for
derefBranch(h, ref) ==
  IF ref = 0 THEN NoBranch ELSE Branch(h[h[ref].path].segs, h[ref].value)

derefRecord(h, ref) ==
  ObjectWithChange(h[ref].implicitChangeType, h[ref].changeType,
                   h[ref].objectKey, h[ref].index,
                   derefBranch(h, h[ref].left), derefBranch(h, h[ref].right),
                   h[ref].delta)

derefList(h, ref) == [i \in 1..Len(h[ref].refs) |-> derefRecord(h, h[ref].refs[i])]

\* { path: [...parent.path, seg], value }: a new path array and a new Branch
allocBranch(h, parent, seg, value) ==
  LET h1 == Append(h, PathCell(Append(h[h[parent].path].segs, seg)))
      h2 == Append(h1, BranchCell(Len(h1), value))
  IN HOk(h2, Len(h2))

\* newLeft / newRight of a base record: a new Branch when the side exists
allocSide(h, parent, seg, value) ==
  IF parent # 0 THEN allocBranch(h, parent, seg, value) ELSE HOk(h, 0)

\* newRight of a base record that hands on the right side it was given
allocRight_Reuse(h, parent, seg, value) == HOk(h, parent)

\* newRight of a base record
allocRight(h, parent, seg, value) == allocSide(h, parent, seg, value)

\* the callback of Object.entries(value).map: newLeft, newRight, the record
allocBaseProperty(h, left, right, implicitChangeType, objectKey, leftValue) ==
  LET l == allocSide(h, left, Str(objectKey), leftValue)
      r == allocRight(l.heap, right, Str(objectKey),
                      IF right # 0 THEN GetProp(h[right].value, objectKey)
                      ELSE Undefined)
      ct == baseChangeType([present |-> l.ref # 0], [present |-> r.ref # 0])
      rec == RecordCell(implicitChangeType, ct, objectKey, NoIndex,
                        l.ref, r.ref, DNull)
  IN HOk(Append(r.heap, rec), Len(r.heap) + 1)

\* the callback of value.map in itemsWithChanges
allocBaseItem(h, left, right, implicitChangeType, index, leftValue) ==
  LET l == allocSide(h, left, Num(index), leftValue)
      r == allocRight(l.heap, right, Num(index),
                      IF left # 0 THEN h[left].value ELSE Undefined)
      ct == baseChangeType([present |-> l.ref # 0], [present |-> r.ref # 0])
      rec == RecordCell(implicitChangeType, ct, NoKey, Num(index),
                        l.ref, r.ref, DNull)
  IN HOk(Append(r.heap, rec), Len(r.heap) + 1)

\* map: one record per entry, then the new array that holds them
RECURSIVE allocBase(_, _, _, _, _, _, _, _)
allocBase(h, left, right, implicitChangeType, entries, i, refs, items) ==
  IF i > Len(entries) THEN HOk(Append(h, ListCell(refs)), Len(h) + 1)
  ELSE LET rec == IF items
                  THEN allocBaseItem(h, left, right, implicitChangeType,
                                     i - 1, entries[i][2])
                  ELSE allocBaseProperty(h, left, right, implicitChangeType,
                                         entries[i][1], entries[i][2])
       IN allocBase(rec.heap, left, right, implicitChangeType, entries, i + 1,
                    Append(refs, rec.ref), items)

\* the side whose value is enumerated
baseRef(left, right, implicitChangeType) ==
  IF implicitChangeType = "added" THEN right ELSE left

\* Object.entries(value).map(...) of propertiesWithChanges
heapBaseProperties(h, left, right, implicitChangeType) ==
  LET base == baseRef(left, right, implicitChangeType)
      entries == ValueEntries(h[base].value)
  IN IF base = 0 THEN HThrow(h, "TypeError")
     ELSE IF h[base].value.t = "undefined" THEN HThrow(h, "TypeError")
     ELSE IF right # 0 /\ h[right].value.t = "undefined" /\ Len(entries) > 0
     THEN HThrow(h, "TypeError")
     ELSE allocBase(h, left, right, implicitChangeType, entries, 1, <<>>, FALSE)

\* value.map(...) of itemsWithChanges
heapBaseItems(h, left, right, implicitChangeType) ==
  LET base == baseRef(left, right, implicitChangeType)
  IN IF base = 0 THEN HThrow(h, "TypeError")
     ELSE IF h[base].value.t # "array" THEN HThrow(h, "TypeError")
     ELSE allocBase(h, left, right, implicitChangeType,
                    ValueEntries(h[base].value), 1, <<>>, TRUE)

\* properties.find((p) => p.objectKey === key): the record's reference or 0
RECURSIVE heapFind(_, _, _, _)
heapFind(h, refs, key, i) ==
  IF i > Len(refs) THEN 0
  ELSE IF h[refs[i]].objectKey = key THEN refs[i]
  ELSE heapFind(h, refs, key, i + 1)

\* properties.push({ ..., right: { path: [...right.path, key], value: change[0] } })
heapAddProperty(h, list, right, implicitChangeType, key, change) ==
  IF right = 0 THEN HThrow(h, "TypeError")
  ELSE LET b == allocBranch(h, right, Str(key), change.xs[1])
           h1 == Append(b.heap, RecordCell(implicitChangeType, "added", key,
                                           NoIndex, 0, b.ref, DNull))
       IN HOk([h1 EXCEPT ![list].refs = Append(@, Len(h1))], list)

\* existingProperty.right.value = change[1]; existingProperty.changeType = 'changed'
heapUpdateProperty(h, list, key, change) ==
  LET f == heapFind(h, h[list].refs, key, 1)
  IN IF f = 0 THEN HThrow(h, "property with key does not exist")
     ELSE IF h[f].right = 0 THEN HThrow(h, "TypeError")
     ELSE HOk([h EXCEPT ![h[f].right].value = change.xs[2],
                        ![f].changeType = "changed"], list)

\* existingProperty.changeType = 'removed'; delete existingProperty.right
heapDeleteProperty(h, list, key) ==
  LET f == heapFind(h, h[list].refs, key, 1)
  IN IF f = 0 THEN HThrow(h, "property with key does not exist")
     ELSE HOk([h EXCEPT ![f].changeType = "removed", ![f].right = 0], list)

\* existingProperty.delta = change
heapNestProperty(h, list, key, change) ==
  LET f == heapFind(h, h[list].refs, key, 1)
  IN IF change.t # "object" THEN HThrow(h, "change should be a simple object")
     ELSE IF f = 0 THEN HThrow(h, "property with key does not exist")
     ELSE HOk([h EXCEPT ![f].delta = change], list)

\* an update that also writes the new value through the right side passed in
heapPropertyChange_WriteParent(h, list, right, implicitChangeType, key, change) ==
  IF change.t = "list"
  THEN IF Len(change.xs) = 1
       THEN heapAddProperty(h, list, right, implicitChangeType, key, change)
       ELSE IF Len(change.xs) = 2
       THEN LET out == heapUpdateProperty(h, list, key, change)
            IN IF out.ok /\ right # 0
               THEN HOk([out.heap EXCEPT ![right].value = change.xs[2]], list)
               ELSE out
       ELSE IF Len(change.xs) = 3 THEN heapDeleteProperty(h, list, key)
       ELSE HThrow(h, "unexpected change length")
  ELSE heapNestProperty(h, list, key, change)

\* the body of the loop over Object.entries(delta)
heapPropertyChange(h, list, right, implicitChangeType, key, change) ==
  IF change.t = "list"
  THEN IF Len(change.xs) = 1
       THEN heapAddProperty(h, list, right, implicitChangeType, key, change)
       ELSE IF Len(change.xs) = 2 THEN heapUpdateProperty(h, list, key, change)
       ELSE IF Len(change.xs) = 3 THEN heapDeleteProperty(h, list, key)
       ELSE HThrow(h, "unexpected change length")
  ELSE heapNestProperty(h, list, key, change)

RECURSIVE heapPropertyChanges(_, _, _, _, _)
heapPropertyChanges(state, entries, i, right, implicitChangeType) ==
  IF ~state.ok \/ i > Len(entries) THEN state
  ELSE heapPropertyChanges(
         heapPropertyChange(state.heap, state.ref, right, implicitChangeType,
                            entries[i][1], entries[i][2]),
         entries, i + 1, right, implicitChangeType)

\* if (delta) { assert(isSimpleObject(delta)); for (...) {...} }
heapPropertyDelta(state, right, delta, implicitChangeType) ==
  IF ~state.ok \/ delta.t = "null" THEN state
  ELSE IF delta.t # "object"
  THEN HThrow(state.heap, "delta should be a simple object")
  ELSE heapPropertyChanges(state, DeltaEntries(delta), 1, right, implicitChangeType)

\* properties.findIndex(...): the position in the list or 0
RECURSIVE heapFindShapeChange(_, _, _)
heapFindShapeChange(h, refs, i) ==
  IF i > Len(refs) THEN 0
  ELSE IF shapeChanged(derefRecord(h, refs[i])) THEN i
  ELSE heapFindShapeChange(h, refs, i + 1)

\* deleteProperty keeps the Branch property.left; addProperty gets a new
\* Branch that keeps the path array of property.left; then the splice
heapSplitProperty(h, list, index, implicitChangeType) ==
  LET property == h[h[list].refs[index]]
      h1 == Append(h, RecordCell(implicitChangeType, "removed",
                                 property.objectKey, NoIndex,
                                 property.left, 0, DNull))
      h2 == Append(h1, BranchCell(h[property.left].path, h[property.right].value))
      h3 == Append(h2, RecordCell(implicitChangeType, "added",
                                  property.objectKey, NoIndex,
                                  0, Len(h2), DNull))
      refs == h[list].refs
  IN [h3 EXCEPT ![list].refs = SubSeq(refs, 1, index - 1)
                                \o <<Len(h1), Len(h3)>>
                                \o SubSeq(refs, index + 1, Len(refs))]

\* while (changed) { ... }
RECURSIVE heapSplitShapeChanges(_, _)
heapSplitShapeChanges(state, implicitChangeType) ==
  LET index == IF state.ok
               THEN heapFindShapeChange(state.heap, state.heap[state.ref].refs, 1)
               ELSE 0
  IN IF index = 0 THEN state
     ELSE IF state.heap[state.heap[state.ref].refs[index]].left = 0
             \/ state.heap[state.heap[state.ref].refs[index]].right = 0
     THEN HThrow(state.heap, "TypeError")
     ELSE heapSplitShapeChanges(
            HOk(heapSplitProperty(state.heap, state.ref, index, implicitChangeType),
                state.ref),
            implicitChangeType)

\* propertiesWithChanges on the heap: the heap it leaves and the list it returns
heapPropertiesWithChanges(h, left, right, delta, implicitChangeType) ==
  heapSplitShapeChanges(
    heapPropertyDelta(heapBaseProperties(h, left, right, implicitChangeType),
                      right, delta, implicitChangeType),
    implicitChangeType)

\* existingItem.changeType = 'removed'; delete existingItem.right; then the
\* loop that lowers item.index of the items after it
heapRemoveItem(h, list, index) ==
  LET refs == h[list].refs
      items == {refs[i] : i \in 1..Len(refs)}
      marked == [h EXCEPT ![refs[ToPosition(index) + 1]].changeType = "removed",
                          ![refs[ToPosition(index) + 1]].right = 0]
  IN IF ~itemExists(refs, index)
     THEN HThrow(h, "item with index does not exist")
     ELSE HOk([a \in 1..Len(marked) |->
                 IF a \in items /\ JsGreater(marked[a].index, index)
                 THEN [marked[a] EXCEPT !.index = JsMinus1(@)]
                 ELSE marked[a]], list)

RECURSIVE heapRemoveItems(_, _, _)
heapRemoveItems(state, indexes, i) ==
  IF ~state.ok \/ i > Len(indexes) THEN state
  ELSE heapRemoveItems(heapRemoveItem(state.heap, state.ref, indexes[i]),
                       indexes, i + 1)

\* the loop that raises item.index, then items.splice(index, 0, { ... })
heapInsertItem(h, list, left, right, implicitChangeType, index, change) ==
  IF change.t # "list" THEN HThrow(h, "unexpected non-array")
  ELSE IF Len(change.xs) = 3 THEN HThrow(h, "array moves are not supported")
  ELSE IF Len(change.xs) = 2 THEN HThrow(h, "array changes are not supported")
  ELSE LET refs == h[list].refs
           items == {refs[i] : i \in 1..Len(refs)}
           shifted == [a \in 1..Len(h) |->
                         IF a \in items /\ JsGreaterEq(h[a].index, index)
                            /\ h[a].changeType # "removed"
                         THEN [h[a] EXCEPT !.index = JsPlus1(@)]
                         ELSE h[a]]
           b == allocBranch(shifted, IF right # 0 THEN right ELSE left, index,
                            IF Len(change.xs) > 0 THEN change.xs[1] ELSE Undefined)
           h1 == Append(b.heap, RecordCell(implicitChangeType, "added", NoKey,
                                           index, 0, b.ref, DNull))
           at == splicePosition(refs, index)
       IN HOk([h1 EXCEPT ![list].refs = SubSeq(refs, 1, at - 1) \o <<Len(h1)>>
                                        \o SubSeq(refs, at, Len(refs))], list)

RECURSIVE heapInsertItems(_, _, _, _, _, _)
heapInsertItems(state, entries, i, left, right, implicitChangeType) ==
  IF ~state.ok \/ i > Len(entries) THEN state
  ELSE IF StartsWithUnderscore(entries[i][1])
  THEN heapInsertItems(state, entries, i + 1, left, right, implicitChangeType)
  ELSE heapInsertItems(
         heapInsertItem(state.heap, state.ref, left, right, implicitChangeType,
                        Str(entries[i][1]), entries[i][2]),
         entries, i + 1, left, right, implicitChangeType)

\* if (delta) { assert(delta._t === 'a'); removals; insertions }
heapItemDelta(state, left, right, delta, implicitChangeType) ==
  IF ~state.ok \/ delta.t = "null" THEN state
  ELSE IF DeltaGet(delta, TKey) # ArrayMarker
  THEN HThrow(state.heap, "delta._t is not a")
  ELSE heapInsertItems(heapRemoveItems(state, toRemove(delta), 1),
                       DeltaEntries(delta), 1, left, right, implicitChangeType)

\* itemsWithChanges on the heap: the heap it leaves and the list it returns
heapItemsWithChanges(h, left, right, delta, implicitChangeType) ==
  heapItemDelta(heapBaseItems(h, left, right, implicitChangeType),
                left, right, delta, implicitChangeType)

(***************************************************************************)
(* The normalizer and the differ (jsondiffpatch configured with            *)
(* detectMove: false, textDiff.minLength: Infinity, objectHash:            *)
(* stringifyBSON).                                                         *)
(***************************************************************************)
\* the text of a typed scalar: a primitive
stringifyBSON(v) == Leaf(v.p)

RECURSIVE unBSON(_)
unBSON(v) ==
  IF v.t = "array" THEN Arr([i \in 1..Len(v.vs) |-> unBSON(v.vs[i])])
  ELSE IF isSimpleObject(v)
  THEN LET entries == ValueEntries(v)
       IN Obj([i \in 1..Len(entries) |-> entries[i][1]],
              [i \in 1..Len(entries) |-> unBSON(entries[i][2])])
  ELSE IF hasBsontype(v) THEN stringifyBSON(v)
  ELSE v

\* matchItems: primitives by ===, composites by objectHash
matchItems(value1, value2) == value1 = value2

\* one row of the length matrix, filled from left to right: row[y + 1] is
\* the length of a longest common subsequence of a1[1..x] and a2[1..y]
RECURSIVE lcsRow(_, _, _, _, _)
lcsRow(a1, a2, above, x, row) ==
  LET y == Len(row)
  IN IF y > Len(a2) THEN row
     ELSE lcsRow(a1, a2, above, x,
                 Append(row,
                        IF matchItems(a1[x], a2[y]) THEN above[y] + 1
                        ELSE IF above[y + 1] >= row[y] THEN above[y + 1]
                        ELSE row[y]))

\* the length matrix: matrix[x + 1][y + 1], rows filled from the top
RECURSIVE lcsLengthMatrix(_, _, _)
lcsLengthMatrix(a1, a2, matrix) ==
  LET x == Len(matrix)
  IN IF x > Len(a1) THEN matrix
     ELSE lcsLengthMatrix(a1, a2,
            Append(matrix, lcsRow(a1, a2, matrix[x], x, <<0>>)))

\* the matched positions <<i1, i2>>, ascending
RECURSIVE lcsBacktrack(_, _, _, _, _)
lcsBacktrack(matrix, a1, a2, i, j) ==
  IF i = 0 \/ j = 0 THEN <<>>
  ELSE IF matchItems(a1[i], a2[j])
  THEN Append(lcsBacktrack(matrix, a1, a2, i - 1, j - 1), <<i, j>>)
  ELSE IF matrix[i + 1][j] > matrix[i][j + 1]
  THEN lcsBacktrack(matrix, a1, a2, i, j - 1)
  ELSE lcsBacktrack(matrix, a1, a2, i - 1, j)

RECURSIVE commonHead(_, _, _)
commonHead(a1, a2, h) ==
  IF h < Len(a1) /\ h < Len(a2) /\ matchItems(a1[h + 1], a2[h + 1])
  THEN commonHead(a1, a2, h + 1)
  ELSE h

RECURSIVE commonTail(_, _, _, _)
commonTail(a1, a2, h, t) ==
  IF t + h < Len(a1) /\ t + h < Len(a2)
     /\ matchItems(a1[Len(a1) - t], a2[Len(a2) - t])
  THEN commonTail(a1, a2, h, t + 1)
  ELSE t

\* the keys and entries of the removals `_index`: [old, 0, 0]
RECURSIVE removedEntries(_, _, _, _)
removedEntries(a1, from, to, kept) ==
  IF from > to THEN <<>>
  ELSE IF from \in kept THEN removedEntries(a1, from + 1, to, kept)
  ELSE <<<<Under(Digits(from)), DList(<<a1[from + 1], Leaf(0), Leaf(0)>>)>>>>
       \o removedEntries(a1, from + 1, to, kept)

\* the keys and entries of the insertions `index`: [new]
RECURSIVE insertedEntries(_, _, _, _)
insertedEntries(a2, from, to, kept) ==
  IF from > to THEN <<>>
  ELSE IF from \in kept THEN insertedEntries(a2, from + 1, to, kept)
  ELSE <<<<Digits(from), DList(<<a2[from + 1]>>)>>>>
       \o insertedEntries(a2, from + 1, to, kept)

\* the arrays filter: trim the common head and tail, LCS on the middle
diffArrays(a1, a2) ==
  LET h == commonHead(a1, a2, 0)
      t == commonTail(a1, a2, h, 0)
      m1 == SubSeq(a1, h + 1, Len(a1) - t)
      m2 == SubSeq(a2, h + 1, Len(a2) - t)
      matrix == lcsLengthMatrix(m1, m2, <<[y \in 1..(Len(m2) + 1) |-> 0]>>)
      seq == lcsBacktrack(matrix, m1, m2, Len(m1), Len(m2))
      kept1 == {seq[i][1] - 1 + h : i \in 1..Len(seq)}
      kept2 == {seq[i][2] - 1 + h : i \in 1..Len(seq)}
      entries == removedEntries(a1, h, Len(a1) - t - 1, kept1)
                 \o insertedEntries(a2, h, Len(a2) - t - 1, kept2)
  IN IF entries = <<>> THEN DNull
     ELSE DArr([i \in 1..Len(entries) |-> entries[i][1]],
               [i \in 1..Len(entries) |-> entries[i][2]])

RECURSIVE diff(_, _)
\* the children of an object diff: left keys, then the keys only right has
RECURSIVE objectChildren(_, _, _, _)
objectChildren(l, r, names, i) ==
  IF i > Len(names) THEN <<>>
  ELSE LET name == names[i]
           child == diff(GetProp(l, name), GetProp(r, name))
       IN IF child.t = "null" THEN objectChildren(l, r, names, i + 1)
          ELSE <<<<name, child>>>> \o objectChildren(l, r, names, i + 1)

RECURSIVE onlyRightKeys(_, _, _)
onlyRightKeys(l, rkeys, i) ==
  IF i > Len(rkeys) THEN <<>>
  ELSE IF GetProp(l, rkeys[i]).t = "undefined"
  THEN <<rkeys[i]>> \o onlyRightKeys(l, rkeys, i + 1)
  ELSE onlyRightKeys(l, rkeys, i + 1)

diffObjects(l, r) ==
  LET lkeys == [i \in 1..Len(ValueEntries(l)) |-> ValueEntries(l)[i][1]]
      rkeys == [i \in 1..Len(ValueEntries(r)) |-> ValueEntries(r)[i][1]]
      entries == objectChildren(l, r, lkeys \o onlyRightKeys(l, rkeys, 1), 1)
  IN IF entries = <<>> THEN DNull
     ELSE DObj([i \in 1..Len(entries) |-> entries[i][1]],
               [i \in 1..Len(entries) |-> entries[i][2]])

\* differ.diff(left, right) ?? null
diff(l, r) ==
  IF l.t = "undefined" /\ r.t = "undefined" THEN DNull
  ELSE IF l.t = "undefined" THEN DList(<<r>>)
  ELSE IF r.t = "undefined" THEN DList(<<l, Leaf(0), Leaf(0)>>)
  ELSE IF l.t = "object" /\ r.t = "object" THEN diffObjects(l, r)
  ELSE IF l.t = "array" /\ r.t = "array" THEN diffArrays(l.vs, r.vs)
  ELSE IF l = r THEN DNull
  ELSE DList(<<l, r>>)

(***************************************************************************)
(* The ChangeView component tree.                                          *)
(***************************************************************************)
\* these are "sticky" as we descend
getImplicitChangeType(obj) ==
  IF obj.implicitChangeType \in {"added", "removed"}
  THEN obj.implicitChangeType
  ELSE obj.changeType

\* the record ChangeView builds for the two documents
rootObject(b, a) ==
  ObjectWithChange("unchanged", "unchanged", NoKey, NoIndex,
                   Branch(<<>>, b), Branch(<<>>, a),
                   diff(unBSON(b), unBSON(a)))

\* the branch whose value ChangeObjectProperty / ChangeArrayItem dispatch on
shownBranch(obj) == IF obj.changeType = "added" THEN obj.right ELSE obj.left

\* 'array', 'object' or 'leaf': the component that renders the record
rowShape(obj) == getValueShape(shownBranch(obj).value)

\* useState(!!obj.delta || obj.changeType !== 'unchanged')
initialOpen(obj) == obj.delta.t # "null" \/ obj.changeType # "unchanged"

\* ChangeObject: propertiesWithChanges({left, right, delta, implicitChangeType})
ChangeObject(obj) ==
  propertiesWithChanges(obj.left, obj.right, obj.delta, getImplicitChangeType(obj))

\* ChangeArray: itemsWithChanges({left, right, delta, implicitChangeType})
ChangeArray(obj) ==
  itemsWithChanges(obj.left, obj.right, obj.delta, getImplicitChangeType(obj))

\* the property name a path segment addresses: String(segment)
ToPropertyKey(segment) ==
  IF segment.ty = "number" THEN Digits(segment.n)
  ELSE IF segment.ty = "string" THEN segment.str
  ELSE Name("undefined")

\* what a helper returned, or that it threw a TypeError
Returned(op, value) == [op |-> op, ok |-> TRUE, value |-> value, shape |-> ""]

TypeError(op) == [op |-> op, ok |-> FALSE, value |-> Undefined, shape |-> ""]

\* lookupValue(path, value): const [head, ...rest] = path; value[head] reads
\* a property of anything but undefined and null, which throw
RECURSIVE lookupValue(_, _)
lookupValue(path, value) ==
  LET head == IF path = <<>> THEN NoIndex ELSE Head(path)
      rest == IF path = <<>> THEN <<>> ELSE Tail(path)
  IN IF value.t \in {"undefined", "null"} THEN TypeError("lookupValue")
     ELSE IF Len(rest) # 0
     THEN lookupValue(rest, GetProp(value, ToPropertyKey(head)))
     ELSE Returned("lookupValue", GetProp(value, ToPropertyKey(head)))

\* getChangeType: added and removed are sticky
getChangeType(obj) ==
  IF obj.implicitChangeType \in {"added", "removed"}
  THEN obj.implicitChangeType
  ELSE obj.changeType

\* a ChangeLeaf that looks up the left value whatever the change type
includeLeft_Always(changeType) == TRUE

\* ['unchanged', 'changed', 'removed'].includes(changeType)
includeLeft(changeType) == changeType \in {"unchanged", "changed", "removed"}

\* ['changed', 'added'].includes(changeType)
includeRight(changeType) == changeType \in {"changed", "added"}

\* include ? lookupValue((branch as Branch).path, document) : undefined
leafValue(include, branch, document) ==
  IF ~include THEN Returned("lookupValue", Undefined)
  ELSE IF ~branch.present THEN TypeError("lookupValue")
  ELSE lookupValue(branch.path, document)

\* ChangeLeaf: the sides it looks up and what the lookups give
ChangeLeaf(obj, left, right) ==
  LET changeType == getChangeType(obj)
  IN [includeLeft |-> includeLeft(changeType),
      includeRight |-> includeRight(changeType),
      leftValue |-> leafValue(includeLeft(changeType), obj.left, left),
      rightValue |-> leafValue(includeRight(changeType), obj.right, right)]

(***************************************************************************)
(* Bounded universes of documents.                                         *)
(***************************************************************************)
\* longest sequence in a document of the tree specification
MaxLen == 2

Leaves == {Leaf(1), Leaf(2)}

SmallObject == Obj(<<Name("a")>>, <<Leaf(1)>>)

SmallArray == Arr(<<Leaf(1)>>)

NestedObject == Obj(<<Name("a")>>, <<SmallObject>>)

\* what a sequence may hold
Elements == Leaves \cup {SmallObject, SmallArray, NestedObject}

\* sequences of at most MaxLen elements, at most one of them composite
Sequences ==
  {vs \in UNION {[1..n -> Elements] : n \in 0..MaxLen} :
     Cardinality({i \in DOMAIN vs : vs[i] \notin Leaves}) <= 1}

\* what a key of a nested mapping may hold
Inner == Leaves \cup {SmallObject, SmallArray, NestedObject}

Mappings ==
  {Obj(<<>>, <<>>)}
  \cup {Obj(<<Name("a")>>, <<v>>) : v \in Inner}
  \cup {Obj(<<Name("a"), Name("b")>>, <<v, w>>) : v \in Leaves, w \in Leaves}

Values == Leaves \cup {Bson(1)} \cup {Arr(vs) : vs \in Sequences} \cup Mappings

\* what a key of a two-key document may hold
Top == {Leaf(1), SmallObject, SmallArray}

Documents ==
  {Obj(<<>>, <<>>)}
  \cup {Obj(<<Name("foo")>>, <<v>>) : v \in Values}
  \cup {Obj(<<Name("foo"), Name("bar")>>, <<v, w>>) : v \in Top, w \in Top \cup {Leaf(2)}}
  \cup {Obj(<<Name("bar"), Name("foo")>>, <<w, v>>) :
          v \in {Leaf(1), SmallObject}, w \in {Leaf(1), SmallObject}}

(***************************************************************************)
(* State.                                                                  *)
(***************************************************************************)
VARIABLES
  before,    \* the before document
  after,     \* the after document
  tree,      \* mounted rows: position in the tree -> ObjectWithChange
  isOpen,    \* mounted rows: position in the tree -> the isOpen state
  computed,  \* rendered ChangeObject / ChangeArray: position -> returned list
  failed,    \* a render threw
  args,      \* arguments of a direct call
  result,    \* outcome of a direct call
  heap,      \* the objects allocated so far, a reference is a position
  calls,     \* the calls made on the heap, each with the heap it found
  subject,   \* a path and a value handed to a helper function
  answer,    \* what the helper function returned
  splitList, \* the properties array inside the shape-split loop
  splitting  \* the loop flag `changed` of the shape-split loop

vars == <<before, after, tree, isOpen, computed, failed, args, result, heap, calls,
          subject, answer, splitList, splitting>>

NoArgs == [left |-> NoBranch, right |-> NoBranch, delta |-> DNull,
           implicitChangeType |-> "unchanged"]

NotCalled == Throw("not called", NoIndex)

NoSubject == [path |-> <<>>, value |-> Undefined]

\* op: the helper applied; ok: it returned; value, shape: what it returned
NotAsked == [op |-> "none", ok |-> TRUE, value |-> Undefined, shape |-> "leaf"]

IsPrefix(p, q) == Len(p) <= Len(q) /\ SubSeq(q, 1, Len(p)) = p

\* the rows a rendered list mounts below position p
childRows(p, list) ==
  [q \in {Append(p, i) : i \in 1..Len(list)} |-> list[q[Len(q)]]]

childOpen(p, list) ==
  [q \in {Append(p, i) : i \in 1..Len(list)} |-> initialOpen(list[q[Len(q)]])]

Init ==
  /\ before \in Documents
  /\ after \in Documents
  /\ tree = (<<>> :> rootObject(before, after))
  /\ isOpen = (<<>> :> TRUE)
  /\ computed = <<>>
  /\ failed = FALSE
  /\ args = NoArgs
  /\ result = NotCalled
  /\ heap = <<>>
  /\ calls = <<>>
  /\ subject = NoSubject
  /\ answer = NotAsked
  /\ splitList = <<>>
  /\ splitting = FALSE

\* a mounted row renders its ChangeObject or ChangeArray
Render(p, list) ==
  /\ computed' = (p :> list) @@ computed
  /\ failed' = ~list.ok
  /\ IF list.ok /\ isOpen[p]
     THEN /\ tree' = childRows(p, list.list) @@ tree
          /\ isOpen' = childOpen(p, list.list) @@ isOpen
     ELSE UNCHANGED <<tree, isOpen>>
  /\ UNCHANGED <<before, after, args, result, heap, calls,
               subject, answer, splitList, splitting>>

RenderChangeObject(p) ==
  /\ ~failed
  /\ p \in DOMAIN tree
  /\ p \notin DOMAIN computed
  /\ shownBranch(tree[p]).present
  /\ rowShape(tree[p]) = "object"
  /\ Render(p, ChangeObject(tree[p]))

RenderChangeArray(p) ==
  /\ ~failed
  /\ p \in DOMAIN tree
  /\ p \notin DOMAIN computed
  /\ shownBranch(tree[p]).present
  /\ rowShape(tree[p]) = "array"
  /\ Render(p, ChangeArray(tree[p]))

\* toggleIsOpen: the row re-renders, a closed row unmounts what is below it
Toggle(p) ==
  /\ ~failed
  /\ p \in DOMAIN computed
  /\ p # <<>>
  /\ isOpen' = [q \in {q \in DOMAIN isOpen : q = p \/ ~IsPrefix(p, q)} |->
                  IF q = p THEN ~isOpen[p] ELSE isOpen[q]]
  /\ tree' = [q \in {q \in DOMAIN tree : q = p \/ ~IsPrefix(p, q)} |-> tree[q]]
  /\ computed' = [q \in {q \in DOMAIN computed : ~IsPrefix(p, q)} |-> computed[q]]
  /\ UNCHANGED <<before, after, failed, args, result, heap, calls,
               subject, answer, splitList, splitting>>

Next ==
  \/ \E p \in DOMAIN tree : RenderChangeObject(p)
  \/ \E p \in DOMAIN tree : RenderChangeArray(p)
  \/ \E p \in DOMAIN tree : Toggle(p)

Spec == Init /\ [][Next]_vars

(***************************************************************************)
(* Direct calls of itemsWithChanges.                                       *)
(***************************************************************************)
\* longest before sequence of a direct call
MaxItems == 9

\* most deletions plus insertions between the two sequences of a direct call
MaxEdits == 2

\* the path of the sequence a direct call is about
ItemsPath == <<Str(Name("foo"))>>

\* the elements of b whose 0-based position is not in D
RECURSIVE keepItems(_, _, _)
keepItems(b, D, i) ==
  IF i > Len(b) THEN <<>>
  ELSE IF (i - 1) \in D THEN keepItems(b, D, i + 1)
  ELSE <<b[i]>> \o keepItems(b, D, i + 1)

\* the after sequence of length m: a new element at each position of J, the
\* kept elements, in order, at the other positions
RECURSIVE placeItems(_, _, _, _, _)
placeItems(kept, J, i, m, fresh) ==
  IF i >= m THEN <<>>
  ELSE IF i \in J
  THEN <<Leaf(fresh + i)>> \o placeItems(kept, J, i + 1, m, fresh)
  ELSE <<kept[1]>> \o placeItems(SubSeq(kept, 2, Len(kept)), J, i + 1, m, fresh)

\* the call ChangeArray makes for a sequence edited from b to a
editedCall(b, a) ==
  [left |-> Branch(ItemsPath, Arr(b)), right |-> Branch(ItemsPath, Arr(a)),
   delta |-> diff(unBSON(Arr(b)), unBSON(Arr(a))),
   implicitChangeType |-> "unchanged"]

\* before sequences of at most `most` distinct leaves, edited by deleting the
\* positions D and inserting new leaves at the final positions J
EditedCalls(most) ==
  UNION {UNION {
    {editedCall([i \in 1..n |-> Leaf(i)],
                placeItems(keepItems([i \in 1..n |-> Leaf(i)], D, 1), J, 0,
                           n - Cardinality(D) + Cardinality(J), n + 1)) :
       J \in {J \in SUBSET (0..(n - Cardinality(D) + MaxEdits - Cardinality(D) - 1)) :
                /\ Cardinality(J) <= MaxEdits - Cardinality(D)
                /\ \A j \in J : j < n - Cardinality(D) + Cardinality(J)}} :
    D \in {D \in SUBSET (0..(n - 1)) : Cardinality(D) <= MaxEdits}} :
    n \in 0..most}

\* the keys a hand-written sequence delta may hold, in insertion order
RawKeys == <<Under(Digits(0)), Under(Digits(1)), Digits(1), Digits(0)>>

\* what it may hold under a key: [new], [old, new], [old, 0, 0], a nested delta
RawChanges ==
  {DList(<<Leaf(0)>>), DList(<<Leaf(1), Leaf(0)>>),
   DList(<<Leaf(1), Leaf(0), Leaf(0)>>),
   DObj(<<Name("a")>>, <<DList(<<Leaf(0)>>)>>)}

\* the positions of the keys for which an entry was picked
RECURSIVE pickedKeys(_, _, _)
pickedKeys(pick, keys, i) ==
  IF i > Len(keys) THEN <<>>
  ELSE IF pick[i].t = "null" THEN pickedKeys(pick, keys, i + 1)
  ELSE <<i>> \o pickedKeys(pick, keys, i + 1)

\* the delta holding pick[i] under keys[i], with or without _t: 'a'
rawDelta(pick, keys, marked) ==
  LET at == pickedKeys(pick, keys, 1)
      ks == [i \in 1..Len(at) |-> keys[at[i]]]
      es == [i \in 1..Len(at) |-> pick[at[i]]]
  IN IF marked THEN DArr(ks, es) ELSE DObj(ks, es)

RawDeltas(keys, changes) ==
  {DNull} \cup
  {rawDelta(pick, keys, marked) :
     pick \in [1..Len(keys) -> changes \cup {DNull}], marked \in BOOLEAN}

\* hand-written deltas for sequences of at most `most` leaves: both sides, an
\* added subtree (no left side), a removed one (no right side)
RawCalls(most, keys, changes) ==
  UNION {
    {[left |-> Branch(ItemsPath, Arr([i \in 1..n |-> Leaf(i)])),
      right |-> Branch(ItemsPath, Arr([i \in 1..n |-> Leaf(i)])),
      delta |-> d, implicitChangeType |-> "unchanged"],
     [left |-> NoBranch,
      right |-> Branch(ItemsPath, Arr([i \in 1..n |-> Leaf(i)])),
      delta |-> d, implicitChangeType |-> "added"],
     [left |-> Branch(ItemsPath, Arr([i \in 1..n |-> Leaf(i)])),
      right |-> NoBranch,
      delta |-> d, implicitChangeType |-> "removed"]} :
    n \in 0..most, d \in RawDeltas(keys, changes)}

\* the document a side of a direct call comes from
documentOf(branch) ==
  IF branch.present THEN Obj(<<Name("foo")>>, <<branch.value>>) ELSE Obj(<<>>, <<>>)

InitItems ==
  /\ args \in EditedCalls(MaxItems) \cup RawCalls(MaxLen, RawKeys, RawChanges)
  /\ before = documentOf(args.left)
  /\ after = documentOf(args.right)
  /\ tree = <<>>
  /\ isOpen = <<>>
  /\ computed = <<>>
  /\ failed = FALSE
  /\ result = NotCalled
  /\ heap = <<>>
  /\ calls = <<>>
  /\ subject = NoSubject
  /\ answer = NotAsked
  /\ splitList = <<>>
  /\ splitting = FALSE

\* itemsWithChanges({left, right, delta, implicitChangeType})
CallItemsWithChanges ==
  /\ result = NotCalled
  /\ result' = itemsWithChanges(args.left, args.right, args.delta,
                                args.implicitChangeType)
  /\ UNCHANGED <<before, after, tree, isOpen, computed, failed, args, heap, calls,
               subject, answer, splitList, splitting>>

NextItems == CallItemsWithChanges

SpecItems == InitItems /\ [][NextItems]_vars

(***************************************************************************)
(* Direct calls of both operations, with hand-written deltas.              *)
(***************************************************************************)
\* the path of the mapping a direct call is about
PropertiesPath == <<Str(Name("foo"))>>

\* the mappings a direct call is about
PropertyBases ==
  {Obj(<<>>, <<>>), Obj(<<Name("a")>>, <<Leaf(1)>>),
   Obj(<<Name("b"), Name("a")>>, <<Leaf(2), Leaf(1)>>),
   Obj(<<Name("a")>>, <<SmallObject>>)}

\* the keys a hand-written mapping delta may hold, in insertion order
RawPropertyKeys == <<Name("b"), Name("a"), Name("c")>>

\* what it may hold under a key: the entries of the wire format, and lists
\* of no and of four elements
RawPropertyChanges ==
  RawChanges \cup {DList(<<>>), DList(<<Leaf(1), Leaf(0), Leaf(0), Leaf(0)>>)}

\* hand-written deltas: null, a list in the place of the delta, mappings
RawPropertyDeltas(changes) ==
  {DNull, DList(<<Leaf(0)>>)} \cup
  {rawDelta(pick, RawPropertyKeys, FALSE) :
     pick \in [1..Len(RawPropertyKeys) -> changes \cup {DNull}]}

\* the keys a hand-written sequence delta of these calls may hold
RawIndexKeys == <<Under(Digits(0)), Digits(1), Digits(0)>>

\* both sides (implicitChangeType unchanged or changed), an added subtree
\* (no left side), a removed one (no right side)
RawPropertyCalls(changes) ==
  UNION {
    {[left |-> Branch(PropertiesPath, l), right |-> Branch(PropertiesPath, r),
      delta |-> d, implicitChangeType |-> c] :
       r \in PropertyBases, c \in {"unchanged", "changed"}}
    \cup
    {[left |-> NoBranch, right |-> Branch(PropertiesPath, l),
      delta |-> d, implicitChangeType |-> "added"],
     [left |-> Branch(PropertiesPath, l), right |-> NoBranch,
      delta |-> d, implicitChangeType |-> "removed"]} :
    l \in PropertyBases, d \in RawPropertyDeltas(changes)}

InitCalls ==
  /\ args \in RawPropertyCalls(RawPropertyChanges)
             \cup RawCalls(MaxLen, RawIndexKeys, RawPropertyChanges)
  /\ before = documentOf(args.left)
  /\ after = documentOf(args.right)
  /\ tree = <<>>
  /\ isOpen = <<>>
  /\ computed = <<>>
  /\ failed = FALSE
  /\ result = NotCalled
  /\ heap = <<>>
  /\ calls = <<>>
  /\ subject = NoSubject
  /\ answer = NotAsked
  /\ splitList = <<>>
  /\ splitting = FALSE

\* the value the call enumerates
baseValue(call) ==
  baseBranch(call.left, call.right, call.implicitChangeType).value

\* propertiesWithChanges({left, right, delta, implicitChangeType})
CallPropertiesWithChanges ==
  /\ result = NotCalled
  /\ baseValue(args).t = "object"
  /\ result' = propertiesWithChanges(args.left, args.right, args.delta,
                                     args.implicitChangeType)
  /\ UNCHANGED <<before, after, tree, isOpen, computed, failed, args, heap, calls,
               subject, answer, splitList, splitting>>

\* itemsWithChanges for a sequence
CallItemsOfSequence ==
  /\ baseValue(args).t = "array"
  /\ CallItemsWithChanges

NextCalls == CallPropertiesWithChanges \/ CallItemsOfSequence

SpecCalls == InitCalls /\ [][NextCalls]_vars

(***************************************************************************)
(* Calls on the heap: ChangeView allocates the root record, ChangeObject   *)
(* and ChangeArray call the two operations with the branches of a record   *)
(* they were given (the root, or a record an earlier call returned).       *)
(***************************************************************************)
\* most calls made on one heap
MaxCalls == 4

\* values under the key of a document on the heap
HeapValues ==
  Leaves \cup {Bson(1), SmallObject, NestedObject, SmallArray,
               Obj(<<Name("a"), Name("b")>>, <<Leaf(1), Leaf(2)>>),
               Obj(<<Name("b")>>, <<Leaf(1)>>),
               Obj(<<Name("a")>>, <<SmallArray>>),
               Arr(<<Leaf(1), Leaf(2)>>), Arr(<<Leaf(2)>>),
               Arr(<<Leaf(2), Leaf(1)>>), Arr(<<SmallObject>>),
               Arr(<<Leaf(1), SmallObject>>)}

HeapDocuments ==
  {Obj(<<>>, <<>>)} \cup {Obj(<<Name("foo")>>, <<v>>) : v \in HeapValues}

\* ChangeView: { left: { path: [], value: before }, right: { path: [],
\* value: after }, delta, ... }
rootHeap(b, a) ==
  LET l == Append(<<PathCell(<<>>)>>, BranchCell(1, b))
      r == Append(Append(l, PathCell(<<>>)), BranchCell(Len(l) + 1, a))
  IN Append(r, RecordCell("unchanged", "unchanged", NoKey, NoIndex,
                          Len(l), Len(r), diff(unBSON(b), unBSON(a))))

InitHeap ==
  /\ before \in HeapDocuments
  /\ after \in HeapDocuments
  /\ heap = rootHeap(before, after)
  /\ calls = <<>>
  /\ tree = <<>>
  /\ isOpen = <<>>
  /\ computed = <<>>
  /\ failed = FALSE
  /\ args = NoArgs
  /\ result = NotCalled
  /\ subject = NoSubject
  /\ answer = NotAsked
  /\ splitList = <<>>
  /\ splitting = FALSE

\* the records a component can have been given: the root and the records
\* of the lists returned so far
givenRecords ==
  {Len(rootHeap(before, after))}
  \cup UNION {{heap[calls[i].list].refs[j] : j \in 1..Len(heap[calls[i].list].refs)} :
                i \in {i \in 1..Len(calls) : calls[i].ok}}

Called(obj, out) ==
  /\ heap' = out.heap
  /\ calls' = Append(calls, [of |-> obj, was |-> heap, ok |-> out.ok, list |-> out.ref])
  /\ UNCHANGED <<before, after, tree, isOpen, computed, failed, args, result,
               subject, answer, splitList, splitting>>

\* ChangeObject renders the record obj
HeapChangeObject(obj) ==
  /\ Len(calls) < MaxCalls
  /\ shownBranch(derefRecord(heap, obj)).present
  /\ rowShape(derefRecord(heap, obj)) = "object"
  /\ Called(obj, heapPropertiesWithChanges(heap, heap[obj].left, heap[obj].right,
               heap[obj].delta, getImplicitChangeType(derefRecord(heap, obj))))

\* ChangeArray renders the record obj
HeapChangeArray(obj) ==
  /\ Len(calls) < MaxCalls
  /\ shownBranch(derefRecord(heap, obj)).present
  /\ rowShape(derefRecord(heap, obj)) = "array"
  /\ Called(obj, heapItemsWithChanges(heap, heap[obj].left, heap[obj].right,
               heap[obj].delta, getImplicitChangeType(derefRecord(heap, obj))))

NextHeap ==
  \/ \E obj \in givenRecords : HeapChangeObject(obj)
  \/ \E obj \in givenRecords : HeapChangeArray(obj)

SpecHeap == InitHeap /\ [][NextHeap]_vars

(***************************************************************************)
(* The shape-split loop of propertiesWithChanges, one iteration a step.    *)
(***************************************************************************)
\* the calls ChangeView makes for the root of two documents
RootCalls ==
  {[left |-> Branch(<<>>, b), right |-> Branch(<<>>, a),
    delta |-> diff(unBSON(b), unBSON(a)), implicitChangeType |-> "unchanged"] :
     b \in Documents, a \in Documents}

\* the calls that reach the loop
SplitCalls ==
  {c \in RootCalls \cup RawPropertyCalls(RawChanges) :
     preSplit(c.left, c.right, c.delta, c.implicitChangeType).ok}

InitSplit ==
  /\ args \in SplitCalls
  /\ splitList = preSplit(args.left, args.right, args.delta,
                          args.implicitChangeType).list
  /\ splitting = TRUE
  /\ before = IF args \in RootCalls THEN args.left.value
              ELSE documentOf(args.left)
  /\ after = IF args \in RootCalls THEN args.right.value
             ELSE documentOf(args.right)
  /\ tree = <<>>
  /\ isOpen = <<>>
  /\ computed = <<>>
  /\ failed = FALSE
  /\ result = NotCalled
  /\ heap = <<>>
  /\ calls = <<>>
  /\ subject = NoSubject
  /\ answer = NotAsked

splitFrame ==
  UNCHANGED <<before, after, tree, isOpen, computed, args, result, heap, calls,
              subject, answer>>

\* an iteration that finds a property: it is spliced into two, or reading
\* the value of a branch the property lacks throws
SplitOne ==
  /\ splitting
  /\ findShapeChange(splitList, 1) # 0
  /\ LET index == findShapeChange(splitList, 1)
     IN IF splitList[index].left.present /\ splitList[index].right.present
        THEN /\ splitList' = splitProperty(splitList, index,
                                            args.implicitChangeType)
             /\ UNCHANGED <<splitting, failed>>
        ELSE /\ failed' = TRUE
             /\ splitting' = FALSE
             /\ UNCHANGED splitList
  /\ splitFrame

\* an iteration that finds none: changed stays false and the loop exits
SplitDone ==
  /\ splitting
  /\ findShapeChange(splitList, 1) = 0
  /\ splitting' = FALSE
  /\ UNCHANGED <<splitList, failed>>
  /\ splitFrame

NextSplit == SplitOne \/ SplitDone

\* the loop runs on: a synchronous while loop takes its next iteration
SpecSplit == InitSplit /\ [][NextSplit]_vars /\ WF_vars(NextSplit)

(***************************************************************************)
(* Direct calls of the helper functions lookupValue, unBSON and            *)
(* getValueShape.                                                          *)
(***************************************************************************)
\* longest path handed to lookupValue
MaxPath == 3

Segments == {Str(Name("foo")), Str(Name("a")), Num(0), Str(Digits(1))}

Paths(most) == UNION {[1..n -> Segments] : n \in 0..most}

\* a mapping whose keys were inserted out of enumeration order
IndexedObject ==
  Obj(<<Digits(1), Name("a"), Digits(0)>>, <<Leaf(1), Bson(1), Leaf(2)>>)

HelperParts ==
  Values \cup {Null, Date(1), Arr(<<Bson(1), Date(1)>>), IndexedObject,
               ArrWithBsontype(<<Leaf(1)>>, 1)}

HelperValues ==
  HelperParts \cup {Undefined}
  \cup {Obj(<<Name("foo")>>, <<v>>) : v \in HelperParts}
  \cup {Arr(<<v, Leaf(2)>>) : v \in HelperParts}

InitValues ==
  /\ subject \in [path : Paths(MaxPath), value : HelperValues]
  /\ answer = NotAsked
  /\ splitList = <<>>
  /\ splitting = FALSE
  /\ before = Obj(<<>>, <<>>)
  /\ after = Obj(<<>>, <<>>)
  /\ tree = <<>>
  /\ isOpen = <<>>
  /\ computed = <<>>
  /\ failed = FALSE
  /\ args = NoArgs
  /\ result = NotCalled
  /\ heap = <<>>
  /\ calls = <<>>

helperFrame ==
  UNCHANGED <<before, after, tree, isOpen, computed, failed, args, result, heap,
              calls, subject, splitList, splitting>>

\* lookupValue(path, value)
CallLookupValue ==
  /\ answer = NotAsked
  /\ answer' = lookupValue(subject.path, subject.value)
  /\ helperFrame

\* unBSON(value)
CallUnBSON ==
  /\ answer = NotAsked
  /\ answer' = Returned("unBSON", unBSON(subject.value))
  /\ helperFrame

\* getValueShape(value)
CallGetValueShape ==
  /\ answer = NotAsked
  /\ answer' = [Returned("getValueShape", Undefined)
                  EXCEPT !.shape = getValueShape(subject.value)]
  /\ helperFrame

NextValues == CallLookupValue \/ CallUnBSON \/ CallGetValueShape

SpecValues == InitValues /\ [][NextValues]_vars

(***************************************************************************)
(* Properties.                                                             *)
(***************************************************************************)
\* the branches a record carries agree with its changeType
branchesMatch(r) ==
  /\ r.left.present \/ r.right.present
  /\ ~r.left.present <=> r.changeType = "added"
  /\ ~r.right.present <=> r.changeType = "removed"

\* C1: every record returned by propertiesWithChanges or itemsWithChanges,
\* whether both sides exist or the call is made inside an added or a removed
\* subtree, has a branch; left is absent exactly for added, right exactly for
\* removed, so unchanged and changed records carry both.
C1_BranchesMatchChangeType ==
  \A p \in DOMAIN computed :
    computed[p].ok =>
      \A i \in 1..Len(computed[p].list) : branchesMatch(computed[p].list[i])

\* a tree in which a call with no right side and a call with no left side
\* have both returned records
C1_Witness ==
  /\ \E p \in DOMAIN computed :
       /\ ~tree[p].right.present /\ computed[p].ok /\ Len(computed[p].list) > 0
  /\ \E p \in DOMAIN computed :
       /\ ~tree[p].left.present /\ computed[p].ok /\ Len(computed[p].list) > 0
  /\ \E p \in DOMAIN computed :
       /\ computed[p].ok
       /\ \E i \in 1..Len(computed[p].list) :
            computed[p].list[i].changeType = "changed"

\* C2: when the before and the after document are the same document, every
\* record of every expansion is unchanged, has implicitChangeType unchanged,
\* carries no nested delta and has both a left and a right branch.
C2_SameDocumentAllUnchanged ==
  before = after =>
    \A p \in DOMAIN computed :
      computed[p].ok =>
        \A i \in 1..Len(computed[p].list) :
          LET r == computed[p].list[i]
          IN /\ r.changeType = "unchanged"
             /\ r.implicitChangeType = "unchanged"
             /\ r.delta = DNull
             /\ r.left.present /\ r.right.present

\* the same document on both sides, expanded two levels below the root
C2_Witness ==
  /\ before = after
  /\ \E p \in DOMAIN computed :
       Len(p) >= 2 /\ computed[p].ok /\ Len(computed[p].list) > 0

\* C3: sticky propagation.  Below a record whose implicitChangeType is added
\* or removed, every record of every mapping or sequence expansion has that
\* same implicitChangeType.
C3_StickyImplicitChangeType ==
  \A p \in DOMAIN tree :
    tree[p].implicitChangeType \in {"added", "removed"} =>
      \A q \in DOMAIN computed :
        IsPrefix(p, q) /\ computed[q].ok =>
          \A i \in 1..Len(computed[q].list) :
            computed[q].list[i].implicitChangeType = tree[p].implicitChangeType

\* a removed sequence item expanded as a mapping and an added mapping
\* property expanded, in one tree
C3_Witness ==
  /\ \E p \in DOMAIN computed :
       /\ tree[p].implicitChangeType = "removed"
       /\ tree[p].index # NoIndex
       /\ computed[p].ok /\ Len(computed[p].list) > 0
  /\ \E p \in DOMAIN computed :
       /\ tree[p].implicitChangeType = "added"
       /\ computed[p].ok /\ Len(computed[p].list) > 0

\* a call made for a mapping that exists on both sides and is reached through
\* mappings only: left.value and right.value are the before and after mapping
bothSidesMapping(obj) ==
  /\ obj.left.present /\ obj.right.present
  /\ obj.left.value.t = "object" /\ obj.right.value.t = "object"
  /\ obj.left.path = obj.right.path
  /\ \A i \in 1..Len(obj.left.path) : obj.left.path[i].ty = "string"

\* the keys of a mapping in enumeration order
keysOf(v) == [i \in 1..Len(ValueEntries(v)) |-> ValueEntries(v)[i][1]]

\* key k exists on both sides with values of different shapes
shapeDiffers(l, r, k) ==
  /\ GetProp(l, k).t # "undefined" /\ GetProp(r, k).t # "undefined"
  /\ getValueShape(GetProp(l, k)) # getValueShape(GetProp(r, k))

\* where the n-th base key's first record lies when every earlier base key
\* whose shape changed takes two positions
positionOfKey(l, r, n) ==
  n + Cardinality({m \in 1..(n - 1) : shapeDiffers(l, r, keysOf(l)[m])})

\* the new value as a record of the given kind carries it: the records added
\* from the delta carry the normalized value, in which a typed scalar is its text
newValueOf(v, normalized) == IF normalized THEN unBSON(v) ELSE v

\* For a key whose value changed shape, the list holds at the position of
\* that key exactly two records with the key: a removed record with only the
\* left branch (the old value) immediately followed by an added record with
\* only the right branch (the new value); and no changed record has values
\* of different shapes.
shapeSplit(normalized) ==
  \A p \in DOMAIN computed :
    bothSidesMapping(tree[p]) =>
      LET l == tree[p].left.value
          r == tree[p].right.value
          list == computed[p].list
      IN /\ computed[p].ok
         /\ \A n \in 1..Len(keysOf(l)) :
              shapeDiffers(l, r, keysOf(l)[n]) =>
                LET k == keysOf(l)[n]
                    i == positionOfKey(l, r, n)
                IN /\ i + 1 <= Len(list)
                   /\ {j \in 1..Len(list) : list[j].objectKey = k} = {i, i + 1}
                   /\ list[i].changeType = "removed"
                   /\ list[i].left.present /\ ~list[i].right.present
                   /\ list[i].left.value = GetProp(l, k)
                   /\ list[i + 1].changeType = "added"
                   /\ ~list[i + 1].left.present /\ list[i + 1].right.present
                   /\ list[i + 1].right.value = newValueOf(GetProp(r, k), normalized)
         /\ \A j \in 1..Len(list) :
              list[j].changeType = "changed" =>
                getValueShape(list[j].left.value) = getValueShape(list[j].right.value)

\* C4 as stated: shape split, the added half carrying the new value of the
\* after document itself.
C4_ShapeSplitAsStated == shapeSplit(FALSE)

\* C4, amended: shape split.  A key whose value changed shape gives a removed
\* record (left branch only, the old value) immediately followed by an added
\* record (right branch only) whose value is the normalized new value; no
\* changed record has values of different shapes.
C4_ShapeSplit == shapeSplit(TRUE)

\* the root of a tree in which both keys changed shape: two split pairs
C4_Witness ==
  /\ <<>> \in DOMAIN computed
  /\ Len(keysOf(before)) = 2
  /\ \A n \in 1..2 : shapeDiffers(before, after, keysOf(before)[n])
  /\ Len(computed[<<>>].list) = 4
  /\ computed[<<>>].list[3].changeType = "removed"
  /\ computed[<<>>].list[4].changeType = "added"

\* [new]: the key exists only in the after document
isAddition(change) == change.t = "list" /\ Len(change.xs) = 1

\* a nested delta: the value under the key changed only inside
isNested(change) == change.t = "object"

\* the keys of a delta, in Object.entries order, whose entry is an addition
\* (nested = FALSE) or a nested delta (nested = TRUE)
RECURSIVE keysWhere(_, _, _)
keysWhere(entries, i, nested) ==
  IF i > Len(entries) THEN <<>>
  ELSE IF (IF nested THEN isNested(entries[i][2]) ELSE isAddition(entries[i][2]))
  THEN <<entries[i][1]>> \o keysWhere(entries, i + 1, nested)
  ELSE keysWhere(entries, i + 1, nested)

addedKeys(obj) == keysWhere(DeltaEntries(obj.delta), 1, FALSE)

nestedKeys(obj) == keysWhere(DeltaEntries(obj.delta), 1, TRUE)

\* a rendered mapping with both sides and a delta
mappingWithDelta(p) ==
  /\ p \in DOMAIN computed
  /\ bothSidesMapping(tree[p])
  /\ tree[p].delta.t = "object"

\* A key that exists only in the after document gives exactly one record,
\* added, without left branch, its right path the parent's right path
\* extended by the key, its right value the new value; these records are the
\* last of the list, in delta order.
addedLast(normalized) ==
  \A p \in DOMAIN computed :
    mappingWithDelta(p) =>
      LET obj == tree[p]
          list == computed[p].list
          keys == addedKeys(obj)
          first == Len(list) - Len(keys)
      IN /\ computed[p].ok
         /\ first >= 0
         /\ \A n \in 1..Len(keys) :
              LET rec == list[first + n]
              IN /\ rec.objectKey = keys[n]
                 /\ {j \in 1..Len(list) : list[j].objectKey = keys[n]} = {first + n}
                 /\ rec.changeType = "added"
                 /\ ~rec.left.present /\ rec.right.present
                 /\ rec.right.path = Append(obj.right.path, Str(keys[n]))
                 /\ rec.right.value =
                      newValueOf(GetProp(obj.right.value, keys[n]), normalized)

\* C7 as stated: an added key gives one added record carrying the new value
\* of the after document itself, appended after the base records.
C7_AddedKeyAsStated == addedLast(FALSE)

\* C7, amended: a key that exists only in the after document gives exactly
\* one record: added, no left branch, right path the parent's right path
\* extended by the key, right value the normalized new value; these records
\* come after all records of the base value, in delta order.
C7_AddedKey == addedLast(TRUE)

\* the root of a tree whose after document has a key its before document
\* lacks: the record of the old key, then the added record
C7_Witness ==
  /\ <<>> \in DOMAIN computed
  /\ Len(keysOf(before)) = 1
  /\ Len(addedKeys(tree[<<>>])) = 1
  /\ Len(computed[<<>>].list) = 2
  /\ computed[<<>>].list[1].changeType # "added"
  /\ computed[<<>>].list[2].changeType = "added"

\* after is before with elements appended
appended(obj) ==
  /\ obj.left.present /\ obj.right.present
  /\ obj.left.value.t = "array" /\ obj.right.value.t = "array"
  /\ Len(obj.left.value.vs) < Len(obj.right.value.vs)
  /\ SubSeq(unBSON(obj.right.value).vs, 1, Len(obj.left.value.vs))
       = unBSON(obj.left.value).vs

\* C8: a key whose composite value changed only inside (a nested delta)
\* gives exactly one record: unchanged, with both branches and that nested
\* delta; expanding a sequence that had elements appended gives the original
\* items as unchanged records followed by the appended items as added ones.
C8_NestedDelta ==
  \A p \in DOMAIN computed :
    /\ mappingWithDelta(p) =>
         /\ computed[p].ok
         /\ \A n \in 1..Len(nestedKeys(tree[p])) :
              LET k == nestedKeys(tree[p])[n]
                  list == computed[p].list
              IN \E j \in 1..Len(list) :
                   /\ {i \in 1..Len(list) : list[i].objectKey = k} = {j}
                   /\ list[j].changeType = "unchanged"
                   /\ list[j].left.present /\ list[j].right.present
                   /\ list[j].left.value = GetProp(tree[p].left.value, k)
                   /\ list[j].delta = DeltaGet(tree[p].delta, k)
    /\ (rowShape(tree[p]) = "array" /\ tree[p].changeType = "unchanged"
        /\ tree[p].delta.t = "object" /\ appended(tree[p])) =>
         LET l == tree[p].left.value.vs
             r == tree[p].right.value.vs
             list == computed[p].list
         IN /\ computed[p].ok
            /\ Len(list) = Len(r)
            /\ \A i \in 1..Len(l) :
                 /\ list[i].changeType = "unchanged"
                 /\ list[i].left.value = l[i]
                 /\ list[i].delta = DNull
            /\ \A i \in (Len(l) + 1)..Len(r) :
                 /\ list[i].changeType = "added"
                 /\ ~list[i].left.present
                 /\ list[i].right.value = unBSON(r[i])

\* the sequence under an unchanged key, expanded: an original item, unchanged,
\* then an appended one, added
C8_Witness ==
  \E p \in DOMAIN computed :
    /\ Len(p) = 1
    /\ tree[p].changeType = "unchanged"
    /\ tree[p].delta.t = "object"
    /\ rowShape(tree[p]) = "array"
    /\ appended(tree[p])
    /\ computed[p].ok
    /\ Len(computed[p].list) = 2
    /\ computed[p].list[1].changeType = "unchanged"
    /\ computed[p].list[2].changeType = "added"

(***************************************************************************)
(* Direct calls: sequence reindexing.                                      *)
(***************************************************************************)
\* the direct call was made and returned a list
returned == result # NotCalled /\ result.ok

\* the call is the one the tree makes for its two sequences
fromDiffer(call) ==
  /\ call.left.present /\ call.right.present
  /\ call.delta = diff(unBSON(call.left.value), unBSON(call.right.value))

\* the 0-based indexes named by the deletion markers / by the insertions
deletedIndexes(d) ==
  {DeltaKeys(d)[i].n : i \in {i \in 1..Len(DeltaKeys(d)) :
     StartsWithUnderscore(DeltaKeys(d)[i]) /\ DeltaKeys(d)[i] # TKey}}

insertedIndexes(d) ==
  {DeltaKeys(d)[i].n : i \in {i \in 1..Len(DeltaKeys(d)) :
     ~StartsWithUnderscore(DeltaKeys(d)[i])}}

\* after is before with one or more elements deleted / inserted
onlyDeletions(call) ==
  /\ fromDiffer(call) /\ call.delta.t = "object"
  /\ deletedIndexes(call.delta) # {} /\ insertedIndexes(call.delta) = {}

onlyInsertions(call) ==
  /\ fromDiffer(call) /\ call.delta.t = "object"
  /\ deletedIndexes(call.delta) = {} /\ insertedIndexes(call.delta) # {}

\* the stored index is the position of the element in the sequence vs
storedAt(index, element, vs) ==
  /\ IsNumeric(index)
  /\ ToNumber(index) < Len(vs)
  /\ vs[ToNumber(index) + 1] = element

\* C5: sequence removal reindexing.  When after is before with elements
\* deleted, the call returns exactly one removed record per deleted element
\* (left value the deleted element, no right branch) and the stored index of
\* every other record is the position of its element in the after sequence.
C5_RemovalReindexing ==
  (result # NotCalled /\ onlyDeletions(args)) =>
    /\ result.ok
    /\ Len(result.list) = Len(args.left.value.vs)
    /\ \A i \in 1..Len(result.list) :
         IF (i - 1) \in deletedIndexes(args.delta)
         THEN /\ result.list[i].changeType = "removed"
              /\ result.list[i].left.present
              /\ result.list[i].left.value = args.left.value.vs[i]
              /\ ~result.list[i].right.present
         ELSE /\ result.list[i].changeType # "removed"
              /\ storedAt(result.list[i].index, result.list[i].left.value,
                          args.right.value.vs)

\* C6: sequence insertion reindexing.  When after is before with elements
\* inserted, the call returns every original element as an unchanged record
\* and one added record per insertion (right branch only, the inserted
\* element, stored index the insertion index), and the stored index of every
\* record is the position of its element in the after sequence.
C6_InsertionReindexing ==
  (result # NotCalled /\ onlyInsertions(args)) =>
    LET b == args.left.value.vs
        a == args.right.value.vs
        list == result.list
        unchanged == {i \in 1..Len(list) : list[i].changeType = "unchanged"}
        added == {i \in 1..Len(list) : list[i].changeType = "added"}
    IN /\ result.ok
       /\ unchanged \cup added = 1..Len(list)
       /\ Cardinality(unchanged) = Len(b)
       /\ \A i \in unchanged :
            /\ list[i].left.present
            /\ storedAt(list[i].index, list[i].left.value, a)
       /\ {ToNumber(list[i].index) : i \in added} = insertedIndexes(args.delta)
       /\ Cardinality(added) = Cardinality(insertedIndexes(args.delta))
       /\ \A i \in added :
            /\ ~list[i].left.present /\ list[i].right.present
            /\ storedAt(list[i].index, list[i].right.value, a)

\* C9: no record of a returned list of items is changed.
C9_ItemsNeverChanged ==
  returned => \A i \in 1..Len(result.list) : result.list[i].changeType # "changed"

\* a call that returned removed, unchanged and added items
C9_Witness ==
  /\ returned
  /\ fromDiffer(args)
  /\ \A c \in {"removed", "unchanged", "added"} :
       \E i \in 1..Len(result.list) : result.list[i].changeType = c

(***************************************************************************)
(* Calls on the heap: what a call writes and what it returns.              *)
(***************************************************************************)
\* the value-level outcome of the call
valueOutcome(call) ==
  LET obj == derefRecord(call.was, call.of)
  IN IF rowShape(obj) = "object" THEN ChangeObject(obj) ELSE ChangeArray(obj)

\* the heap calls return what the operations on values return
heapAgrees ==
  \A i \in 1..Len(calls) :
    /\ calls[i].ok = valueOutcome(calls[i]).ok
    /\ calls[i].ok => derefList(heap, calls[i].list) = valueOutcome(calls[i]).list

\* the cells a returned list reaches: the list, its records, their branches
\* and the path arrays of these
reached(h, list) ==
  LET records == {h[list].refs[j] : j \in 1..Len(h[list].refs)}
      branches == {h[r].left : r \in records} \cup {h[r].right : r \in records}
      paths == {h[b].path : b \in branches \ {0}}
  IN ({list} \cup records \cup branches \cup paths) \ {0}

\* C10: a call changes no object that existed when it was made (the branches
\* passed in with their paths, document values and deltas, and the lists and
\* records earlier calls returned), and the list it returns, its records,
\* their branches and paths are all objects allocated by that call.
C10_ReadOnlyFreshResult ==
  \A i \in 1..Len(calls) :
    /\ SubSeq(heap, 1, Len(calls[i].was)) = calls[i].was
    /\ calls[i].ok =>
         \A a \in reached(heap, calls[i].list) : a > Len(calls[i].was)

\* the root rendered, then a record it returned rendered, both lists holding
\* records, the first with a record the delta changed or removed
C10_Witness ==
  /\ Len(calls) = 2
  /\ calls[1].ok /\ calls[2].ok
  /\ calls[2].of \in reached(heap, calls[1].list)
  /\ Len(heap[calls[2].list].refs) > 0
  /\ \E r \in reached(heap, calls[1].list) :
       heap[r].changeType \in {"changed", "removed"}

\* what a call returned: whether it threw, and the records of its list
outcomeOf(call) ==
  IF call.ok THEN Ok(derefList(heap, call.list)) ELSE Throw("", NoIndex)

\* C11: expansion is deterministic and order-independent.  Whatever was
\* expanded before and in between, two expansions of the same node return
\* the same children, and every expansion returns what the operation returns
\* for the node as it was first given.
C11_ExpansionDeterministic ==
  \A i \in 1..Len(calls) :
    /\ outcomeOf(calls[i]).ok = valueOutcome(calls[i]).ok
    /\ outcomeOf(calls[i]).list = valueOutcome(calls[i]).list
    /\ \A j \in 1..Len(calls) :
         calls[i].of = calls[j].of => outcomeOf(calls[i]) = outcomeOf(calls[j])

\* the root expanded, two different children of it expanded one after the
\* other, then the first of them expanded again
C11_Witness ==
  /\ Len(calls) = 4
  /\ \A i \in 1..4 : calls[i].ok
  /\ calls[2].of \in reached(heap, calls[1].list)
  /\ calls[3].of \in reached(heap, calls[1].list)
  /\ calls[3].of # calls[2].of
  /\ calls[4].of = calls[2].of
  /\ Len(heap[calls[2].list].refs) > 0
  /\ Len(heap[calls[3].list].refs) > 0

(***************************************************************************)
(* Direct calls: the input contract.                                       *)
(***************************************************************************)
\* the direct call was made
called == result # NotCalled

\* the call is about a mapping / about a sequence with a delta marked _t: 'a'
mappingCall(call) == baseValue(call).t = "object" /\ call.delta.t = "object"

sequenceCall(call) ==
  /\ baseValue(call).t = "array" /\ call.delta.t = "object"
  /\ DeltaGet(call.delta, TKey) = ArrayMarker

\* k is a key of the base mapping
isBaseKey(call, k) == \E n \in 1..Len(keysOf(baseValue(call))) : keysOf(baseValue(call))[n] = k

\* an entry that refers to an existing record: [old, new], [old, 0, 0], nested
refersToRecord(change) ==
  \/ change.t = "list" /\ Len(change.xs) \in {2, 3}
  \/ change.t = "object"

\* a mapping entry that the loop passes without an error
passes(call, k, change) ==
  \/ change.t = "list" /\ Len(change.xs) = 1 /\ call.right.present
  \/ change.t = "list" /\ Len(change.xs) = 2 /\ isBaseKey(call, k) /\ call.right.present
  \/ change.t = "list" /\ Len(change.xs) = 3 /\ isBaseKey(call, k)
  \/ change.t = "object" /\ isBaseKey(call, k)

\* positions of the entries that refer to a key the base mapping lacks
absentKeys(call) ==
  {i \in 1..Len(DeltaEntries(call.delta)) :
     /\ refersToRecord(DeltaEntries(call.delta)[i][2])
     /\ ~isBaseKey(call, DeltaEntries(call.delta)[i][1])}

\* positions of the deletion markers outside the base sequence
absentIndexes(call) ==
  {i \in 1..Len(toRemove(call.delta)) : ~itemExists(baseValue(call).vs, toRemove(call.delta)[i])}

\* the smallest element of a non-empty set of numbers
least(S) == CHOOSE i \in S : \A j \in S : i <= j

\* C12: a delta that refers to something the base value lacks (a 2-element,
\* 3-element or nested entry for a key the base mapping lacks; a deletion
\* marker for an index outside the base sequence) makes the call throw and
\* return no list; when it is the first entry that fails, the error names
\* that key or index.
C12_AbsentReferenceFails ==
  called =>
    /\ (mappingCall(args) /\ absentKeys(args) # {}) =>
         LET entries == DeltaEntries(args.delta)
             first == least(absentKeys(args))
         IN /\ ~result.ok /\ result.list = <<>>
            /\ (\A j \in 1..(first - 1) : passes(args, entries[j][1], entries[j][2]))
                 => /\ result.error = "property with key does not exist"
                    /\ result.culprit = Str(entries[first][1])
    /\ (sequenceCall(args) /\ absentIndexes(args) # {}) =>
         /\ ~result.ok /\ result.list = <<>>
         /\ result.error = "item with index does not exist"
         /\ result.culprit = toRemove(args.delta)[least(absentIndexes(args))]

\* a mapping call whose delta has an entry that passes and then an update of
\* a key the base lacks: it threw, naming that key
C12_Witness ==
  /\ called
  /\ mappingCall(args)
  /\ absentKeys(args) # {}
  /\ least(absentKeys(args)) > 1
  /\ Len(DeltaEntries(args.delta)[least(absentKeys(args))][2].xs) = 2
  /\ ~result.ok
  /\ result.culprit = Str(DeltaEntries(args.delta)[least(absentKeys(args))][1])

\* the entries of a delta, without the marker _t
changesOf(call) ==
  {i \in 1..Len(DeltaEntries(call.delta)) : DeltaEntries(call.delta)[i][1] # TKey}

\* a list entry of a length the wire contract does not allow at its key
malformedAtKey(change) ==
  change.t = "list" /\ Len(change.xs) \notin {1, 2, 3}

malformedAtIndex(k, change) ==
  /\ ~StartsWithUnderscore(k)
  /\ change.t = "list" /\ Len(change.xs) # 1

malformedAtMarker(k, change) ==
  /\ StartsWithUnderscore(k)
  /\ change.t = "list" /\ Len(change.xs) # 3

\* a malformed entry under a mapping key makes the call throw
mappingEntriesChecked ==
  (called /\ mappingCall(args)
   /\ \E i \in changesOf(args) : malformedAtKey(DeltaEntries(args.delta)[i][2]))
    => ~result.ok

\* a malformed entry under a sequence index makes the call throw
indexEntriesChecked ==
  (called /\ sequenceCall(args)
   /\ \E i \in changesOf(args) :
        malformedAtIndex(DeltaEntries(args.delta)[i][1], DeltaEntries(args.delta)[i][2]))
    => ~result.ok

\* a malformed entry under a deletion marker makes the call throw
markerEntriesChecked ==
  (called /\ sequenceCall(args)
   /\ \E i \in changesOf(args) :
        malformedAtMarker(DeltaEntries(args.delta)[i][1], DeltaEntries(args.delta)[i][2]))
    => ~result.ok

\* C13: every malformed delta entry is fatal.  A list entry of a length the
\* wire contract does not allow at its key (mapping key: not 1, 2 or 3;
\* sequence index: not 1, which covers moves and same-slot replacements;
\* deletion marker: not 3) makes the call throw instead of returning records.
C13_MalformedEntriesFail ==
  mappingEntriesChecked /\ indexEntriesChecked /\ markerEntriesChecked

(***************************************************************************)
(* Path resolution (lookupValue).                                          *)
(***************************************************************************)
\* the value has the segment as an own property
hasSegment(value, segment) ==
  LET k == ToPropertyKey(segment)
  IN \/ value.t = "object" /\ KeyPos(value.ks, k, 1) # 0
     \/ value.t = "array" /\ IsIndexKey(k) /\ k.n < Len(value.vs)

\* every segment of the path exists, followed in order from the value
RECURSIVE pathExists(_, _)
pathExists(path, value) ==
  \/ path = <<>>
  \/ /\ hasSegment(value, Head(path))
     /\ pathExists(Tail(path), GetProp(value, ToPropertyKey(Head(path))))

\* the value reached by following an existing path from the root
RECURSIVE valueAt(_, _)
valueAt(path, value) ==
  IF path = <<>> THEN value
  ELSE valueAt(Tail(path), GetProp(value, ToPropertyKey(Head(path))))

\* lookupValue has been applied to a document
resolved ==
  answer.op = "lookupValue" /\ subject.value.t \in {"object", "array"}

\* C14: resolving a path with an absent segment, the last one included,
\* throws; it never returns a result for a path that is not in the document.
C14_AbsentPathFails ==
  (resolved /\ ~pathExists(subject.path, subject.value)) => ~answer.ok

\* an absent segment is fatal only when a further segment is read from the
\* undefined or null value it produced
absentBeforeLastFails ==
  (resolved /\ Len(subject.path) >= 2
     /\ valueAt(SubSeq(subject.path, 1, Len(subject.path) - 1), subject.value).t
          \in {"undefined", "null"})
    => ~answer.ok

\* an existing path that is not empty resolves to the value it leads to
existingPathResolves ==
  (resolved /\ subject.path # <<>> /\ pathExists(subject.path, subject.value))
    => answer.ok /\ answer.value = valueAt(subject.path, subject.value)

\* C15: a path whose segments all exist resolves to the original value
\* reached from the root by following them in order, and the empty path
\* resolves to the document itself.
C15_ExistingPathResolves ==
  (resolved /\ pathExists(subject.path, subject.value))
    => answer.ok /\ answer.value = valueAt(subject.path, subject.value)

(***************************************************************************)
(* Normalization (unBSON) and shape classification (getValueShape).        *)
(***************************************************************************)
normalized == answer.op = "unBSON"

\* typeof is neither 'object' nor 'function', or the value is null
isPrimitive(v) == v.t \in {"leaf", "undefined", "null"}

\* n has the composite shape of v at every depth: the same keys in the same
\* order, the same length; below a leaf of v anything may stand when
\* leavesPrimitive is off, only a primitive when it is on
RECURSIVE sameComposite(_, _, _)
sameComposite(v, n, leavesPrimitive) ==
  /\ getValueShape(n) = getValueShape(v)
  /\ IF getValueShape(v) = "leaf" THEN leavesPrimitive => isPrimitive(n)
     ELSE /\ keysOf(n) = keysOf(v)
          /\ \A i \in 1..Len(ValueEntries(v)) :
               sameComposite(ValueEntries(v)[i][2], ValueEntries(n)[i][2],
                             leavesPrimitive)

\* unBSON keeps the composite shape and the classification of every value
shapePreserved ==
  normalized => sameComposite(subject.value, answer.value, FALSE)

\* a typed scalar becomes a primitive at every depth
RECURSIVE noBsontypeLeft(_)
noBsontypeLeft(n) ==
  /\ ~hasBsontype(n)
  /\ \A i \in 1..Len(ValueEntries(n)) : noBsontypeLeft(ValueEntries(n)[i][2])

typedScalarsConverted == normalized => noBsontypeLeft(answer.value)

\* C16: unBSON preserves the composite shape at every depth (a mapping
\* keeps its keys and their order, a sequence its length and order) and
\* turns every leaf, typed, date-like or plain, into a primitive; so the
\* shape of the normalized value is the shape of the value.
C16_NormalizePreservesShape ==
  normalized => sameComposite(subject.value, answer.value, TRUE)

classified == answer.op = "getValueShape"

\* a discriminated value that is not an Array is a leaf
discriminatedObjectIsLeaf ==
  (classified /\ hasBsontype(subject.value) /\ subject.value.t # "array")
    => answer.shape = "leaf"

\* C17: getValueShape gives every value exactly one of the shapes sequence,
\* mapping and leaf, and a value carrying the type discriminator is a leaf
\* even when it is structurally a mapping or a sequence.
C17_DiscriminatorIsLeaf ==
  classified =>
    /\ answer.shape \in {"array", "object", "leaf"}
    /\ hasBsontype(subject.value) => answer.shape = "leaf"

(***************************************************************************)
(* Expansion of the component tree.                                        *)
(***************************************************************************)
\* the positions above p
ancestors(p) == {SubSeq(p, 1, n) : n \in 0..(Len(p) - 1)}

\* nothing is mounted, and so nothing computed, below a collapsed row
belowCollapsedNothingComputed ==
  \A p \in DOMAIN tree \cup DOMAIN computed :
    \A q \in ancestors(p) : q \in DOMAIN isOpen /\ isOpen[q]

\* C18: the children of a row are computed only while the row is shown
\* open: whatever toggles have been made, no children have been computed
\* for a collapsed row or for a row below a collapsed row.
C18_ComputedOnlyWhileOpen ==
  \A p \in DOMAIN computed :
    /\ isOpen[p]
    /\ \A q \in ancestors(p) : isOpen[q]

(***************************************************************************)
(* The deltas of the differ against the input contract of the builder.     *)
(***************************************************************************)
\* [old, 0, 0]: a deletion, not a move ([_, to, 3])
isDeletion(change) ==
  change.t = "list" /\ Len(change.xs) = 3
    /\ change.xs[2] = Leaf(0) /\ change.xs[3] = Leaf(0)

\* the delta is one the builder accepts for the base value: no move, no
\* 2-element list at a sequence index, no key or index the base lacks
RECURSIVE inContract(_, _)
inContract(delta, base) ==
  IF delta.t = "null" THEN TRUE
  ELSE IF delta.t # "object" THEN FALSE
  ELSE IF DeltaGet(delta, TKey) = ArrayMarker
  THEN /\ base.t = "array"
       /\ \A i \in 1..Len(delta.ks) :
            LET k == delta.ks[i]
                change == delta.es[i]
            IN \/ k = TKey
               \/ /\ StartsWithUnderscore(k)
                  /\ isDeletion(change)
                  /\ hasSegment(base, Str(Slice1(k)))
               \/ /\ IsIndexKey(k)
                  /\ isAddition(change)
  ELSE /\ base.t = "object"
       /\ \A i \in 1..Len(delta.ks) :
            LET k == delta.ks[i]
                change == delta.es[i]
            IN \/ isAddition(change)
               \/ /\ change.t = "list" /\ Len(change.xs) = 2
                  /\ hasSegment(base, Str(k))
               \/ isDeletion(change) /\ hasSegment(base, Str(k))
               \/ /\ isNested(change)
                  /\ hasSegment(base, Str(k))
                  /\ inContract(change, GetProp(base, k))

\* the delta handed to the root is within the contract
differDeltaInContract == inContract(tree[<<>>].delta, unBSON(before))

\* no render has failed on one of the builder's own checks
noContractErrorRaised ==
  \A p \in DOMAIN computed : computed[p].ok \/ computed[p].error = "TypeError"

\* C19: the delta of the differ has no move, no same-slot sequence
\* replacement and no reference to an absent key or index, so that every
\* row of the tree renders to completion.
C19_DifferDeltaExpands == differDeltaInContract /\ ~failed

(***************************************************************************)
(* Base selection.                                                         *)
(***************************************************************************)
\* the path segments and values of the entries of a base value, in order
baseEntries(v) ==
  [i \in 1..Len(ValueEntries(v)) |->
     <<IF v.t = "array" THEN Num(ValueEntries(v)[i][1].n)
       ELSE Str(ValueEntries(v)[i][1]),
       ValueEntries(v)[i][2]>>]

\* the records of the list that stem from the left side, as the last
\* segment of their left path and their left value
RECURSIVE fromLeft(_, _)
fromLeft(list, i) ==
  IF i > Len(list) THEN <<>>
  ELSE IF list[i].left.present
  THEN <<<<list[i].left.path[Len(list[i].left.path)], list[i].left.value>>>>
       \o fromLeft(list, i + 1)
  ELSE fromLeft(list, i + 1)

\* the last segments of the right paths of the records of the list
rightSegments(list) ==
  [i \in 1..Len(list) |-> list[i].right.path[Len(list[i].right.path)]]

\* the row at p enumerates the base the claim names, one record an entry
enumeratesBase(p) ==
  LET obj == tree[p]
      list == computed[p].list
  IN IF getImplicitChangeType(obj) = "added"
     THEN /\ obj.right.present
          /\ computed[p].ok =>
               /\ \A i \in 1..Len(list) : list[i].right.present
               /\ rightSegments(list)
                    = [i \in 1..Len(baseEntries(obj.right.value)) |->
                         baseEntries(obj.right.value)[i][1]]
     ELSE /\ obj.left.present
          /\ computed[p].ok => fromLeft(list, 1) = baseEntries(obj.left.value)

\* C20: the base records of a list come from right.value when the
\* implicit change type is added and from left.value otherwise, one record
\* for each key or element in the order of the base, and the base side is
\* present in every expansion the tree reaches.
C20_BaseSelection == \A p \in DOMAIN computed : enumeratesBase(p)

\* lists have been returned for an added, a removed and an unchanged row
\* with entries
C20_Witness ==
  /\ \A kind \in {"added", "removed", "unchanged"} :
       \E p \in DOMAIN computed :
         /\ getImplicitChangeType(tree[p]) = kind
         /\ computed[p].ok
         /\ Len(computed[p].list) > 0
  /\ \E p \in DOMAIN computed :
       rowShape(tree[p]) = "array" /\ computed[p].ok /\ computed[p].list # <<>>

(***************************************************************************)
(* The values the base items of a sequence carry.                          *)
(***************************************************************************)
\* a sequence row whose list has been returned
itemsReturned(p) == rowShape(tree[p]) = "array" /\ computed[p].ok

\* the base element a record of the list at p was built for: the records
\* of an added row are all base records, elsewhere those with a left branch
baseElementOf(p, r) ==
  LET added == getImplicitChangeType(tree[p]) = "added"
      base == IF added THEN tree[p].right.value ELSE tree[p].left.value
      path == IF added THEN r.right.path ELSE r.left.path
  IN base.vs[path[Len(path)].n + 1]

isBaseItem(p, r) ==
  getImplicitChangeType(tree[p]) = "added" \/ r.left.present

\* the left branch of every base item holds the element
leftCarriesElement ==
  \A p \in DOMAIN computed :
    itemsReturned(p) =>
      \A i \in 1..Len(computed[p].list) :
        LET r == computed[p].list[i]
        IN (isBaseItem(p, r) /\ r.left.present)
             => r.left.value = baseElementOf(p, r)

\* C21: a record built for base element i carries that element as the
\* value of each branch it has, the right-only records of an added
\* sequence included: never the whole sequence, never undefined.
C21_ItemCarriesElement ==
  \A p \in DOMAIN computed :
    itemsReturned(p) =>
      \A i \in 1..Len(computed[p].list) :
        LET r == computed[p].list[i]
        IN isBaseItem(p, r) =>
             /\ r.left.present => r.left.value = baseElementOf(p, r)
             /\ r.right.present => r.right.value = baseElementOf(p, r)

(***************************************************************************)
(* Changed and removed keys of a mapping.                                  *)
(***************************************************************************)
\* the positions of the list whose record has the key
recordsOfKey(list, k) == {i \in 1..Len(list) : list[i].objectKey = k}

\* [old, new] with old and new of one shape
isSameShapeUpdate(change) ==
  /\ change.t = "list"
  /\ Len(change.xs) = 2
  /\ getValueShape(change.xs[1]) = getValueShape(change.xs[2])

\* C22: a key with a 2-element entry whose old and new value have one
\* shape has exactly one record: changed, both branches, the left value the
\* before value and the right value the second element of the entry.  A
\* key with a 3-element entry has exactly one record: removed, with the
\* left branch only.
C22_ChangedAndRemovedKeys ==
  \A p \in DOMAIN computed :
    (mappingWithDelta(p) /\ computed[p].ok) =>
      \A n \in 1..Len(tree[p].delta.ks) :
        LET k == tree[p].delta.ks[n]
            change == tree[p].delta.es[n]
            list == computed[p].list
            at == recordsOfKey(list, k)
        IN /\ isSameShapeUpdate(change) =>
                /\ Cardinality(at) = 1
                /\ \A i \in at :
                     /\ list[i].changeType = "changed"
                     /\ list[i].left.present /\ list[i].right.present
                     /\ list[i].left.value = GetProp(tree[p].left.value, k)
                     /\ list[i].right.value = change.xs[2]
           /\ (change.t = "list" /\ Len(change.xs) = 3) =>
                /\ Cardinality(at) = 1
                /\ \A i \in at :
                     /\ list[i].changeType = "removed"
                     /\ list[i].left.present /\ ~list[i].right.present
                     /\ list[i].left.value = GetProp(tree[p].left.value, k)

\* a returned list of a mapping whose delta changes one key and removes
\* another
C22_Witness ==
  \E p \in DOMAIN computed :
    /\ mappingWithDelta(p)
    /\ computed[p].ok
    /\ \E n \in 1..Len(tree[p].delta.ks) : isSameShapeUpdate(tree[p].delta.es[n])
    /\ \E n \in 1..Len(tree[p].delta.ks) : isDeletion(tree[p].delta.es[n])

(***************************************************************************)
(* Termination of the shape-split loop.                                    *)
(***************************************************************************)
\* the number of changed records whose two values differ in shape
mismatched(list) ==
  Cardinality({i \in 1..Len(list) :
                 /\ list[i].changeType = "changed"
                 /\ list[i].left.present /\ list[i].right.present
                 /\ getValueShape(list[i].left.value)
                      # getValueShape(list[i].right.value)})

\* a changed record without one of its branches: reading its value throws
lacksBranch(list) ==
  \E i \in 1..Len(list) :
    list[i].changeType = "changed"
      /\ ~(list[i].left.present /\ list[i].right.present)

\* the list the loop of the call started from
splitStart ==
  preSplit(args.left, args.right, args.delta, args.implicitChangeType).list

\* C23: the shape-split loop terminates: every iteration that goes on has
\* replaced one mismatched changed record by a removed and an added one,
\* which lowers the number of mismatched changed records, and the loop
\* exits exactly when none is left.
C23_SplitTerminates ==
  /\ <>(~splitting)
  /\ [][splitting' =>
          /\ mismatched(splitList') = mismatched(splitList) - 1
          /\ Len(splitList') = Len(splitList) + 1]_vars
  /\ []((~splitting /\ ~failed) => mismatched(splitList) = 0)
  /\ []((splitting /\ mismatched(splitList) = 0 /\ ~lacksBranch(splitList))
         => ENABLED SplitDone)

\* the loop has exited after two iterations that split a record
C23_Witness ==
  /\ ~splitting
  /\ ~failed
  /\ mismatched(splitStart) = 2
  /\ Len(splitList) = Len(splitStart) + 2

(***************************************************************************)
(* The two passes of itemsWithChanges.                                     *)
(***************************************************************************)
\* a returned call on a sequence with both sides and a delta
twoSidedItems ==
  /\ returned
  /\ args.left.present /\ args.right.present
  /\ args.left.value.t = "array"
  /\ args.delta.t = "object"

hasMarker(delta, i) == KeyPos(delta.ks, Under(Digits(i)), 1) # 0

\* the base list and the list after the removal pass alone
baseOfCall ==
  baseItems(args.left, args.right, args.implicitChangeType).list

removalsOfCall == removeItems(Ok(baseOfCall), toRemove(args.delta), 1)

\* C24: all deletion markers are applied before any insertion entry,
\* whatever the order of the keys: a marker selects the record at its
\* original position of the base list, and the insertions are applied to
\* the list whose indices have been adjusted for all removals.
C24_RemovalsBeforeInsertions ==
  twoSidedItems =>
    /\ removalsOfCall.ok
    /\ \A i \in 1..Len(baseOfCall) :
         /\ removalsOfCall.list[i].left = baseOfCall[i].left
         /\ (removalsOfCall.list[i].changeType = "removed")
              <=> hasMarker(args.delta, i - 1)
    /\ result.list = insertItems(removalsOfCall, DeltaEntries(args.delta), 1,
                                 args.left, args.right,
                                 args.implicitChangeType).list
    /\ \A n \in 1..Len(result.list) :
         result.list[n].left.present =>
           LET path == result.list[n].left.path
           IN (result.list[n].changeType = "removed")
                <=> hasMarker(args.delta, path[Len(path)].n)

\* a returned list for a delta with a deletion marker and an insertion,
\* which Object.entries enumerates insertion first
C24_Witness ==
  /\ twoSidedItems
  /\ \E i, j \in 1..Len(DeltaEntries(args.delta)) :
       /\ i < j
       /\ IsIndexKey(DeltaEntries(args.delta)[i][1])
       /\ StartsWithUnderscore(DeltaEntries(args.delta)[j][1])
       /\ DeltaEntries(args.delta)[j][1] # TKey
       /\ DeltaEntries(args.delta)[i][1].n <= Slice1(DeltaEntries(args.delta)[j][1]).n

(***************************************************************************)
(* A nested delta at a sequence index.                                     *)
(***************************************************************************)
\* a call on a sequence whose delta holds, besides _t, one or more nested
\* deltas at plain indexes of the base and nothing else
onlyNestedAtIndexes ==
  /\ called
  /\ sequenceCall(args)
  /\ changesOf(args) # {}
  /\ \A i \in changesOf(args) :
       LET k == DeltaEntries(args.delta)[i][1]
           change == DeltaEntries(args.delta)[i][2]
       IN IsIndexKey(k) /\ isNested(change) /\ k.n < Len(baseValue(args).vs)

\* such a call throws on the first of them
nestedAtIndexThrows ==
  onlyNestedAtIndexes =>
    ~result.ok /\ result.error = "unexpected non-array"

\* C25: a nested delta at a plain index key of a sequence delta is legal:
\* the call returns, and the record at that index carries the nested delta.
C25_NestedItemDelta ==
  onlyNestedAtIndexes =>
    /\ result.ok
    /\ \A i \in changesOf(args) :
         \E n \in 1..Len(result.list) :
           /\ result.list[n].index = Num(DeltaEntries(args.delta)[i][1].n)
           /\ result.list[n].delta = DeltaEntries(args.delta)[i][2]

(***************************************************************************)
(* The sides a leaf row resolves.                                          *)
(***************************************************************************)
\* the mounted rows that render a ChangeLeaf
leafRows == {p \in DOMAIN tree : p # <<>> /\ rowShape(tree[p]) = "leaf"}

\* implicitChangeType when it is added or removed, else the local type
effectiveType(obj) ==
  IF obj.implicitChangeType = "added" THEN "added"
  ELSE IF obj.implicitChangeType = "removed" THEN "removed"
  ELSE obj.changeType

\* C26: a leaf row resolves its left value from the before document
\* exactly if its effective change type is unchanged, changed or removed,
\* its right value from the after document exactly if it is changed or
\* added, and the branch a resolution needs is present.
C26_LeafSides ==
  \A p \in leafRows :
    LET leaf == ChangeLeaf(tree[p], before, after)
        effective == effectiveType(tree[p])
    IN /\ leaf.includeLeft <=> effective \in {"unchanged", "changed", "removed"}
       /\ leaf.includeRight <=> effective \in {"changed", "added"}
       /\ leaf.includeLeft => tree[p].left.present
       /\ leaf.includeRight => tree[p].right.present

\* changed, added and removed leaf rows are mounted, one of them below a
\* row that is itself added or removed
C26_Witness ==
  /\ \A kind \in {"changed", "added", "removed"} :
       \E p \in leafRows : effectiveType(tree[p]) = kind
  /\ \E p \in leafRows : tree[p].implicitChangeType \in {"added", "removed"}

\* ---------------------------------------------------------------------------
\* The surviving records against the after sequence
\* ---------------------------------------------------------------------------

\* the records of a returned list that are not removed, in list order
surviving(list) == SelectSeq(list, LAMBDA item : item.changeType # "removed")

\* the element a record shows: ChangeArrayItem reads right.value of an added
\* record and left.value of every other one
shownValue(item) ==
  IF item.changeType = "added" THEN item.right.value ELSE item.left.value

\* the surviving records are the elements of the after sequence, in order
survivorsInAfterOrder ==
  LET s == surviving(result.list)
      a == args.right.value.vs
  IN /\ Len(s) = Len(a)
     /\ \A i \in 1..Len(s) : shownValue(s[i]) = unBSON(a[i])

\* the stored indexes of the surviving records count 0, 1, ..., m-1
survivorsCountUp ==
  LET s == surviving(result.list)
  IN \A i \in 1..Len(s) : IsNumeric(s[i].index) /\ ToNumber(s[i].index) = i - 1

\* the weaker fact the code does keep: the surviving records are the elements
\* of the after sequence as a bag, whatever their order
survivorsAreAfterElements ==
  (returned /\ fromDiffer(args) /\ args.delta.t = "object") =>
    LET s == surviving(result.list)
        a == args.right.value.vs
    IN /\ Len(s) = Len(a)
       /\ \A v \in {unBSON(a[i]) : i \in 1..Len(a)} :
            Cardinality({i \in 1..Len(s) : shownValue(s[i]) = v})
              = Cardinality({i \in 1..Len(a) : unBSON(a[i]) = v})

\* C27: for the delta of a no-move diff with any mix of deletions and
\* insertions, the non-removed records of the returned list, read in list
\* order, are the elements of the after sequence in order, with stored
\* indexes 0, 1, ..., m-1.
C27_SurvivorsAreAfter ==
  (result # NotCalled /\ fromDiffer(args) /\ args.delta.t = "object") =>
    /\ result.ok
    /\ survivorsInAfterOrder
    /\ survivorsCountUp

\* ---------------------------------------------------------------------------
\* The paths of the branches against the two documents
\* ---------------------------------------------------------------------------

\* looking the path up in the document yields the element the branch holds
\* (both read through unBSON: a branch taken from a delta holds the
\* normalized element)
resolvesTo(branch, document) ==
  LET found == lookupValue(branch.path, document)
  IN found.ok /\ unBSON(found.value) = unBSON(branch.value)

\* the rows below the root row, whose branches have the empty path
rowsBelowRoot == {p \in DOMAIN tree : p # <<>>}

\* every left branch is bound to its place in the before document
leftLocationBound ==
  \A p \in rowsBelowRoot :
    tree[p].left.present => resolvesTo(tree[p].left, before)

\* right branches of rows that are neither sequence items nor below one, nor
\* the added half of a shape split, are bound to their place in after
isItemRow(p) == tree[p].index # NoIndex

belowItems(p) == \E q \in ancestors(p) \cup {p} : q # <<>> /\ isItemRow(q)

addedHalf(p) ==
  /\ tree[p].changeType = "added" /\ tree[p].right.present
  /\ \E q \in rowsBelowRoot :
       /\ q # p /\ tree[q].changeType = "removed"
       /\ tree[q].left.present /\ tree[q].left.path = tree[p].right.path

rightLocationBoundOffItems ==
  \A p \in rowsBelowRoot :
    (tree[p].right.present /\ ~belowItems(p) /\ ~addedHalf(p))
      => resolvesTo(tree[p].right, after)

\* C28: every branch of every record of the tree is location-bound:
\* resolving left.path in the before document yields the element of the left
\* branch and resolving right.path in the after document yields the element
\* of the right branch, shifted sequence items and the added half of a shape
\* split included.
C28_LocationBound ==
  \A p \in rowsBelowRoot :
    /\ tree[p].left.present => resolvesTo(tree[p].left, before)
    /\ tree[p].right.present => resolvesTo(tree[p].right, after)

\* ---------------------------------------------------------------------------
\* The keys of the two mappings against the records
\* ---------------------------------------------------------------------------

\* the row at p has been expanded from two mappings and the delta between
\* them
mappingPair(p) ==
  /\ p \in DOMAIN computed
  /\ tree[p].left.present /\ tree[p].right.present
  /\ tree[p].left.value.t = "object" /\ tree[p].right.value.t = "object"
  /\ tree[p].delta = diff(unBSON(tree[p].left.value), unBSON(tree[p].right.value))

\* the set of the keys of a mapping
keySet(v) == {keysOf(v)[i] : i \in 1..Len(keysOf(v))}

\* the records of the list that carry a left / a right branch
withLeft(list) == {i \in 1..Len(list) : list[i].left.present}

withRight(list) == {i \in 1..Len(list) : list[i].right.present}

\* the records in `at` are one for each key of the mapping
onePerKey(list, at, v) ==
  /\ {list[i].objectKey : i \in at} = keySet(v)
  /\ \A i, j \in at : list[i].objectKey = list[j].objectKey => i = j

\* two records of one key are the removed and added halves of a split
sharedOnlyBySplit(list) ==
  \A i, j \in 1..Len(list) :
    (i < j /\ list[i].objectKey = list[j].objectKey) =>
      /\ j = i + 1
      /\ list[i].changeType = "removed" /\ list[j].changeType = "added"
      /\ ~list[i].right.present /\ ~list[j].left.present

\* C29: for two mappings and the delta between them, the records with a
\* left branch are one for each key of the before mapping, the records with
\* a right branch are one for each key of the after mapping, and two records
\* share a key only as the adjacent removed/added pair of a shape split.
C29_KeysPreserved ==
  \A p \in DOMAIN computed :
    mappingPair(p) =>
      /\ computed[p].ok
      /\ onePerKey(computed[p].list, withLeft(computed[p].list), tree[p].left.value)
      /\ onePerKey(computed[p].list, withRight(computed[p].list), tree[p].right.value)
      /\ sharedOnlyBySplit(computed[p].list)

\* a returned list of two mappings with a key kept on both sides and a key
\* split in two
C29_Witness ==
  \E p \in DOMAIN computed :
    /\ mappingPair(p) /\ computed[p].ok
    /\ LET list == computed[p].list
       IN /\ \E i \in 1..Len(list) :
               list[i].left.present /\ list[i].right.present
          /\ \E i \in 1..(Len(list) - 1) :
               list[i].objectKey = list[i + 1].objectKey

\* ---------------------------------------------------------------------------
\* The type of the stored indexes and of the path segments
\* ---------------------------------------------------------------------------

\* the call returned a list for a differ delta with insertions
returnedWithInsertions ==
  /\ returned /\ fromDiffer(args) /\ args.delta.t = "object"
  /\ insertedIndexes(args.delta) # {}

addedRecords(list) == {i \in 1..Len(list) : list[i].changeType = "added"}

\* the last segment of the path of a present branch is a number
integerSegment(branch) ==
  branch.present => branch.path[Len(branch.path)].ty = "number"

\* what the code does: a record added by an insertion stores the delta key
\* itself, a string, as its index and as the last segment of its right
\* path ...
addedIndexesAreStrings ==
  returnedWithInsertions =>
    \A i \in addedRecords(result.list) :
      /\ result.list[i].index.ty = "string"
      /\ result.list[i].right.path[Len(result.list[i].right.path)].ty = "string"

\* ... while every other record keeps numbers
otherIndexesAreIntegers ==
  returned =>
    \A i \in (1..Len(result.list)) \ addedRecords(result.list) :
      /\ result.list[i].index.ty = "number"
      /\ integerSegment(result.list[i].left)
      /\ integerSegment(result.list[i].right)

\* C30: every stored index and every last path segment of a returned
\* list of items is an integer, each added record ends with its delta key J
\* as its index, and no added record is moved by a later insertion.
C30_IntegerIndexes ==
  returnedWithInsertions =>
    LET list == result.list
        added == addedRecords(list)
    IN /\ \A i \in 1..Len(list) :
            /\ list[i].index.ty = "number"
            /\ integerSegment(list[i].left)
            /\ integerSegment(list[i].right)
       /\ {list[i].index : i \in added}
            = {Num(j) : j \in insertedIndexes(args.delta)}
       /\ Cardinality(added) = Cardinality(insertedIndexes(args.delta))

====
